---- MODULE Spec2Model ----
(***************************************************************************)
(* auto-cert: certificate lifecycle (issue / renew / renewAll) and nginx   *)
(* configuration deployment (deploy, transformHttpToHttps), local mode and *)
(* SSH remote mode.                                                        *)
(*                                                                         *)
(* One invocation of the tool runs one operation; a behaviour is one       *)
(* environment (certificate store, domain registry, nginx config file)     *)
(* followed by the steps of one operation.                                 *)
(***************************************************************************)
EXTENDS Integers, Sequences, FiniteSets, TLC

(***************************************************************************)
(* Text model.  A file is a sequence of tokens.  Whitespace and braces are *)
(* tokens of their own, a directive is one token, so that the regular      *)
(* expressions of the source can be evaluated token by token.              *)
(***************************************************************************)
WS == {"NL", "SP"}

\* The search strings of String.includes that a token's text contains.
Marks(tok) ==
  CASE tok = "listen 80;" -> {"listen 80"}
    [] tok = "listen [::]:80;" -> {}
    [] tok = "listen 8080;" -> {"listen 80"}
    [] tok = "listen 443 ssl http2;" -> {"listen 443"}
    [] tok = "listen 443 ssl;" -> {"listen 443"}
    [] tok = "ssl_certificate fullchain.pem;" -> {"ssl_certificate"}
    [] tok = "ssl_certificate cert.pem;" -> {"ssl_certificate"}
    [] tok = "ssl_certificate_key privkey.pem;" -> {"ssl_certificate"}
    [] tok = "ssl_certificate_key cert.key;" -> {"ssl_certificate"}
    [] tok = "ssl_trusted_certificate chain.pem;" -> {}
    [] tok = "return 301 https;" -> {"return 301"}
    [] tok = "/.well-known/acme-challenge/" -> {".well-known/acme-challenge"}
    [] tok = "alias acme-challenge;" -> {".well-known/acme-challenge"}
    [] tok = "EXISTS" -> {"EXISTS"}
    [] tok = "NOT_EXISTS" -> {"EXISTS", "NOT_EXISTS"}
    [] OTHER -> {}

\* String.prototype.includes
Includes(s, needle) == \E i \in 1..Len(s) : needle \in Marks(s[i])

Min(S) == CHOOSE x \in S : \A y \in S : x <= y

\* b occurs in a as a contiguous run of tokens
Occurs(b, a) ==
  \E i \in 0..(Len(a) - Len(b)) : SubSeq(a, i + 1, i + Len(b)) = b

\* Array.prototype.join
RECURSIVE Join(_, _)
Join(ss, sep) ==
  IF ss = <<>> THEN <<>>
  ELSE IF Len(ss) = 1 THEN ss[1]
  ELSE ss[1] \o sep \o Join(Tail(ss), sep)

(***************************************************************************)
(* NginxManager (transforming variant): text functions                     *)
(***************************************************************************)

\* generateSslConfig: the certificate directives of a secure block
generateSslConfig ==
  << "NL", "SP", "ssl_certificate fullchain.pem;",
     "NL", "SP", "ssl_certificate_key privkey.pem;",
     "NL", "SP", "ssl_protocols;",
     "NL", "SP", "add_header;", "NL" >>

\* generateConfig of the transforming variant: plaintext redirect block + secure block
generateConfig ==
  << "server", "SP", "{", "NL",
     "SP", "listen 80;", "NL",
     "SP", "listen [::]:80;", "NL",
     "SP", "server_name;", "NL",
     "SP", "location", "SP", "/.well-known/acme-challenge/", "SP", "{", "NL",
     "SP", "alias acme-challenge;", "NL",
     "SP", "}", "NL",
     "SP", "location", "SP", "/", "SP", "{", "NL",
     "SP", "return 301 https;", "NL",
     "SP", "}", "NL",
     "}", "NL", "NL",
     "server", "SP", "{", "NL",
     "SP", "listen 443 ssl http2;", "NL",
     "SP", "listen [::]:443 ssl http2;", "NL",
     "SP", "server_name;" >>
  \o generateSslConfig \o
  << "SP", "location", "SP", "/", "SP", "{", "NL",
     "SP", "proxy_pass upstream;", "NL",
     "SP", "}", "NL",
     "}" >>

\* /server\s*\{/ at position i: the index of the "{" or 0
BraceAfter(c, i) ==
  LET rest == { j \in (i + 1)..Len(c) : c[j] \notin WS }
  IN IF rest # {} /\ c[Min(rest)] = "{" THEN Min(rest) ELSE 0

\* /[\s\S]*?\n\}/ after the "{" at j: the index of the newline before the
\* first "}" that starts a line, or 0
CloseAfter(c, j) ==
  LET ks == { k \in (j + 1)..(Len(c) - 1) : c[k] = "NL" /\ c[k + 1] = "}" }
  IN IF ks = {} THEN 0 ELSE Min(ks)

RECURSIVE parseFrom(_, _)
parseFrom(c, pos) ==
  LET starts == { i \in pos..Len(c) :
                    /\ c[i] = "server"
                    /\ BraceAfter(c, i) # 0
                    /\ CloseAfter(c, BraceAfter(c, i)) # 0 }
  IN IF starts = {} THEN <<>>
     ELSE LET i == Min(starts)
              j == BraceAfter(c, i)
              k == CloseAfter(c, j)
          IN << <<"server", "SP", "{">> \o SubSeq(c, j + 1, k - 1) \o <<"NL", "}">> >>
             \o parseFrom(c, k + 2)

\* parseServerBlocks: /server\s*\{([\s\S]*?)\n\}/g
parseServerBlocks(content) == parseFrom(content, 1)

\* /location\s+[^{]+\{[^}]+\}/ at position i: the index of the closing "}" or 0
LocationEnd(c, i) ==
  LET opens  == { j \in (i + 1)..Len(c) : c[j] = "{" }
      j      == IF opens = {} THEN 0 ELSE Min(opens)
      closes == { k \in (j + 1)..Len(c) : c[k] = "}" }
      k      == IF closes = {} THEN 0 ELSE Min(closes)
  IN IF /\ c[i] = "location"
        /\ j # 0
        /\ j - i - 1 >= 2
        /\ c[i + 1] \in WS
        /\ k # 0
        /\ k - j - 1 >= 1
     THEN k ELSE 0

RECURSIVE locationsFrom(_, _)
locationsFrom(c, pos) ==
  LET starts == { i \in pos..Len(c) : LocationEnd(c, i) # 0 }
  IN IF starts = {} THEN <<>>
     ELSE LET i == Min(starts)
          IN << SubSeq(c, i, LocationEnd(c, i)) >> \o locationsFrom(c, LocationEnd(c, i) + 1)

\* httpBlock.match(/location\s+[^{]+\{[^}]+\}/g) || []
locationMatches(httpBlock) == locationsFrom(httpBlock, 1)

KeepLocation(loc) ==
  /\ ~Includes(loc, "return 301")
  /\ ~Includes(loc, ".well-known/acme-challenge")

\* locationMatches.filter(loc => ...)
RECURSIVE filterLocations(_)
filterLocations(ls) ==
  IF ls = <<>> THEN <<>>
  ELSE (IF KeepLocation(Head(ls)) THEN <<Head(ls)>> ELSE <<>>) \o filterLocations(Tail(ls))

IndentLocation(l) == <<"SP">> \o l

RECURSIVE MapIndent(_)
MapIndent(ls) == IF ls = <<>> THEN <<>> ELSE <<IndentLocation(Head(ls))>> \o MapIndent(Tail(ls))

\* createHttpsServerFromHttp
createHttpsServerFromHttp(httpBlock) ==
  LET locations == filterLocations(locationMatches(httpBlock))
  IN << "server", "SP", "{", "NL",
        "SP", "listen 443 ssl http2;", "NL",
        "SP", "listen [::]:443 ssl http2;", "NL",
        "SP", "server_name;" >>
     \o generateSslConfig
     \o Join(MapIndent(locations), <<"NL">>)
     \o << "NL", "}" >>

\* the challenge-proof location that the transform inserts
AcmeLocation ==
  << "SP", "location", "SP", "/.well-known/acme-challenge/", "SP", "{", "NL",
     "SP", "alias acme-challenge;", "NL",
     "SP", "}", "NL", "NL" >>

\* block.replace(/(server\s*{[\s\S]*?)(})/, '$1' + AcmeLocation + '$2')
insertAcme(block) ==
  LET starts == { i \in 1..Len(block) :
                    /\ block[i] = "server"
                    /\ BraceAfter(block, i) # 0
                    /\ \E k \in (BraceAfter(block, i) + 1)..Len(block) : block[k] = "}" }
  IN IF starts = {} THEN block
     ELSE LET i == Min(starts)
              k == Min({ k \in (BraceAfter(block, i) + 1)..Len(block) : block[k] = "}" })
          IN SubSeq(block, 1, k - 1) \o AcmeLocation \o SubSeq(block, k, Len(block))

IsHttpsBlock(block) == Includes(block, "listen 443") \/ Includes(block, "ssl_certificate")

\* one iteration of the loop of transformHttpToHttps: what the block contributes
transformBlock(block) ==
  IF IsHttpsBlock(block) THEN << block >>
  ELSE IF Includes(block, "listen 80")
       THEN << IF Includes(block, ".well-known/acme-challenge") THEN block ELSE insertAcme(block),
               createHttpsServerFromHttp(block) >>
       ELSE << block >>

RECURSIVE transformBlocks(_)
transformBlocks(blocks) ==
  IF blocks = <<>> THEN <<>> ELSE transformBlock(Head(blocks)) \o transformBlocks(Tail(blocks))

\* hasAddedHttps at the end of the loop
hasAddedHttps(blocks) ==
  \E i \in 1..Len(blocks) : IsHttpsBlock(blocks[i]) \/ Includes(blocks[i], "listen 80")

\* a transform that returns what it has instead of throwing
transformHttpToHttpsLenient(content) ==
  [ok |-> TRUE, err |-> "", text |-> Join(transformBlocks(parseServerBlocks(content)), <<"NL", "NL">>)]

\* transformHttpToHttps: [ok |-> FALSE, err] when it throws, else the new content
transformHttpToHttps(content) ==
  LET serverBlocks == parseServerBlocks(content)
  IN IF Len(serverBlocks) = 0 THEN [ok |-> FALSE, err |-> "cannot parse config", text |-> <<>>]
     ELSE IF ~hasAddedHttps(serverBlocks)
          THEN [ok |-> FALSE, err |-> "no convertible block", text |-> <<>>]
          ELSE [ok |-> TRUE, err |-> "",
                text |-> Join(transformBlocks(serverBlocks), <<"NL", "NL">>)]

(***************************************************************************)
(* Existing config files the operator may have written: an optional        *)
(* upstream block, a main server block and an optional second server       *)
(* block.                                                                  *)
(***************************************************************************)
MaxLocs == 2

LocKinds == {"plain", "nested", "redirect", "acme"}

\* a location block as an operator writes it, one directive per line
RenderLocation(kind) ==
  CASE kind = "plain" ->
         << "SP", "location", "SP", "/api", "SP", "{", "NL",
            "SP", "proxy_pass api;", "NL",
            "SP", "}", "NL" >>
    [] kind = "nested" ->
         << "SP", "location", "SP", "/", "SP", "{", "NL",
            "SP", "if", "SP", "{", "SP", "return 404;", "SP", "}", "NL",
            "SP", "proxy_pass app;", "NL",
            "SP", "}", "NL" >>
    [] kind = "redirect" ->
         << "SP", "location", "SP", "/old", "SP", "{", "NL",
            "SP", "return 301 https;", "NL",
            "SP", "}", "NL" >>
    [] kind = "acme" ->
         << "SP", "location", "SP", "/.well-known/acme-challenge/", "SP", "{", "NL",
            "SP", "alias acme-challenge;", "NL",
            "SP", "}", "NL" >>

RECURSIVE RenderLocations(_)
RenderLocations(kinds) ==
  IF kinds = <<>> THEN <<>> ELSE RenderLocation(Head(kinds)) \o RenderLocations(Tail(kinds))

\* the location alone, without its indentation and line end
LocationText(kind) == SubSeq(RenderLocation(kind), 2, Len(RenderLocation(kind)) - 1)

ListenToken(listen) ==
  CASE listen = "80" -> "listen 80;"
    [] listen = "443" -> "listen 443 ssl;"
    [] listen = "9000" -> "listen 9000;"

\* a server block; its closing brace starts a line or is indented
RenderBlock(b) ==
  << "server", "SP", "{", "NL",
     "SP", ListenToken(b.listen), "NL",
     "SP", "server_name;", "NL" >>
  \o (IF b.listen = "443" THEN << "SP", "ssl_certificate cert.pem;", "NL" >> ELSE <<>>)
  \o RenderLocations(b.locs)
  \o (IF b.indented THEN << "SP", "}", "NL" >> ELSE << "}", "NL" >>)

UpstreamBlock ==
  << "upstream", "SP", "app", "SP", "{", "NL",
     "SP", "server 127.0.0.1:3000;", "NL",
     "}", "NL", "NL" >>

ExtraBlocks ==
  { "none", "https", "http" }

RenderExtra(x) ==
  CASE x = "none"  -> <<>>
    [] x = "https" -> << "NL" >> \o RenderBlock([listen |-> "443", locs |-> <<"plain">>, indented |-> FALSE])
    [] x = "http"  -> << "NL" >> \o RenderBlock([listen |-> "80", locs |-> <<"plain">>, indented |-> FALSE])

LocSeqs == UNION { [1..n -> LocKinds] : n \in 0..MaxLocs }

Blocks == [listen : {"80", "443", "9000"}, locs : LocSeqs, indented : BOOLEAN]

ConfigShapes == [upstream : BOOLEAN, main : Blocks, extra : ExtraBlocks]

RenderConfig(s) ==
  (IF s.upstream THEN UpstreamBlock ELSE <<>>) \o RenderBlock(s.main) \o RenderExtra(s.extra)

(***************************************************************************)
(* State                                                                   *)
(***************************************************************************)
Domains == {"a.com", "b.com"}

\* the order in which readdir lists the certificate directory
DomainOrder == << "a.com", "b.com" >>

\* days until expiry of the certificates found in the store
StoredDays == {10, 30}

\* values a caller passes as daysBeforeExpiry
PassedDays == {0, 20}

DefaultDays == 30

MaxAuthz == 2

MaxCerts == 3

Absent == << "ENOENT" >>

(***************************************************************************)
(* Certificate bundles and the artifact files of a domain                  *)
(***************************************************************************)
\* a token that is one PEM certificate, BEGIN line to END line
CertTokens == {"leaf", "ca1", "ca2"}

CaCerts == {"ca1", "ca2"}

\* the certificates of a bundle the ACME server sends: none, or a leaf and its chain
CertSeqs ==
  { <<>> } \cup { <<"leaf">> \o ch : ch \in UNION { [1..n -> CaCerts] : n \in 0..(MaxCerts - 1) } }

\* what the server puts after each certificate
Separators == { <<"NL">>, <<"NL", "NL">> }

Bundles == [certs : CertSeqs, sep : Separators]

NoBundle == [certs |-> <<>>, sep |-> <<"NL">>]

RECURSIVE RenderBundle(_, _)
\* the text of the downloaded bundle
RenderBundle(cs, sep) ==
  IF cs = <<>> THEN <<>> ELSE << Head(cs) >> \o sep \o RenderBundle(Tail(cs), sep)

\* cert.match(/-----BEGIN CERTIFICATE-----[\s\S]*?-----END CERTIFICATE-----/g) || []
matchCertificates(cert) == SelectSeq(cert, LAMBDA tok : tok \in CertTokens)

RECURSIVE JoinTokens(_, _)
\* Array.prototype.join of strings that are one token each
JoinTokens(toks, sep) ==
  IF toks = <<>> THEN <<>>
  ELSE IF Len(toks) = 1 THEN toks
  ELSE << Head(toks) >> \o sep \o JoinTokens(Tail(toks), sep)

\* the whole bundle taken as the chain
sliceAll(certs) == certs

\* certs.slice(1)
sliceChain(certs) == Tail(certs)

\* what saveCertificate writes to cert.pem, chain.pem and fullchain.pem
splitBundle(cert) ==
  LET certs == matchCertificates(cert)
  IN [ cert      |-> << certs[1] >>,
       chain     |-> IF Len(certs) > 1 THEN JoinTokens(sliceChain(certs), <<"NL">>) ELSE <<>>,
       fullchain |-> IF Len(certs) > 1 THEN cert ELSE << certs[1] >> ]

ArtifactNames == {"key", "cert", "chain", "fullchain"}

\* modes an existing cert.key can have
KeyModes == {"0600", "0644"}

\* gen: the issuance that wrote the content, 0 when the file does not exist
NoFile == [gen |-> 0, mode |-> "none", text |-> <<>>]

NoFiles == [n \in ArtifactNames |-> NoFile]

\* the files of an earlier issuance
IssuedFiles(keyMode) ==
  [n \in ArtifactNames |->
     CASE n = "key"       -> [gen |-> 1, mode |-> keyMode, text |-> <<"key">>]
       [] n = "cert"      -> [gen |-> 1, mode |-> "0644", text |-> <<"leaf">>]
       [] n = "chain"     -> [gen |-> 1, mode |-> "0644", text |-> <<"ca1">>]
       [] n = "fullchain" -> [gen |-> 1, mode |-> "0644", text |-> <<"leaf", "NL", "ca1", "NL">>]]

\* a file of the remote certificate directory
NoRemoteFile == [gen |-> 0, mode |-> "none"]

NoRemoteFiles == [n \in ArtifactNames |-> NoRemoteFile]

\* what installCertificate left there after an earlier issuance
InstalledFiles ==
  [n \in ArtifactNames |-> [gen |-> 1, mode |-> IF n = "key" THEN "600" ELSE "644"]]

\* fs.writeFile(path, data, { mode }): the mode is used only when the file is created
writeFile(old, text, mode) ==
  [gen |-> 2, mode |-> IF old.gen = 0 THEN mode ELSE old.mode, text |-> text]

VARIABLES
  store,     \* certsDir: per domain, whether its directory exists and the stored leaf certificate
  registry,  \* domains.yaml: per domain, its record
  email,     \* config.email is set
  client,    \* CertificateManager.client is cached
  channel,   \* the SshClient of the running operation: "none", "connected", "closed"
  conf,      \* <nginxConfDir>/<domain>.conf on the target host of the domain
  backups,   \* <domain>.conf.backup.<timestamp> files of the domain, oldest first
  httpsConf, \* <nginxConfDir>/<domain>-https.conf on the target host of the domain
  shape,     \* how the operator wrote the existing config (fixed during a run)
  existing,  \* deploy: what the inspection of the existing config found
  op,        \* the operation the tool was invoked for
  cur,       \* the domain being processed
  pc,        \* position of the flow
  remote,    \* isRemote of the running issue / deploy
  authz,     \* authorizations of the order: how many, and the one being processed
  bundle,    \* number of certificates in the downloaded bundle
  pending,   \* what the running issue / deploy returns or throws once its finally block has run
  batch,     \* renewAll: domains still to process and the three result lists
  result,    \* what the operation returned or threw
  log,       \* calls made so far, in order
  proofs,    \* proof resources that exist in the web roots: domain, authorization, challenge type
  remoteCerts, \* per domain, the artifact files in the remote certificate directory
  cfg,       \* the sources of the settings, the loaded Config and the web root of the proof
  runs,      \* two invocations of the tool that run at the same time on one machine
  accounts   \* accountsDir: the account key files, each with the account it was created for

vars == << store, registry, email, client, channel, conf, backups, httpsConf, shape, existing,
           op, cur, pc,
           remote, authz, bundle, pending, batch, result, log, proofs, remoteCerts, cfg,
           runs, accounts >>

\* an invocation that was not started
NoRun ==
  [kind |-> "none", domain |-> "a.com", email |-> <<>>, staging |-> FALSE, pc |-> "idle",
   path |-> <<>>, key |-> [email |-> <<>>, staging |-> FALSE],
   loaded |-> [d \in {"a.com", "b.com"} |-> [present |-> FALSE, issuedAt |-> 0, ssh |-> FALSE]]]

Runs == {1, 2}

NoRuns == [r \in Runs |-> NoRun]

\* a setting that a source does not provide (undefined, or a key that is not there)
Unset == "unset"

\* no option, no environment variable, no config file, no record of the domain
NoCfg ==
  [stage  |-> "none",
   cli    |-> [email |-> Unset, staging |-> Unset, webroot |-> Unset],
   env    |-> [email |-> Unset, staging |-> Unset, webRoot |-> Unset],
   file   |-> [email |-> Unset, staging |-> Unset, webRoot |-> Unset],
   record |-> [webRoot |-> Unset, ssh |-> FALSE, remoteWebRoot |-> Unset],
   config |-> [email |-> Unset, staging |-> Unset, webRoot |-> Unset],
   proofRoot |-> Unset]

NoRecord == [present |-> FALSE, issuedAt |-> 0, ssh |-> FALSE]

NoOptions == [days |-> [set |-> FALSE, val |-> 0], force |-> FALSE,
              backup |-> TRUE, reload |-> TRUE, variant |-> "none",
              challengeType |-> "http-01", cleanup |-> TRUE, dnsProvider |-> "none"]

AbsentShape ==
  [present |-> FALSE, upstream |-> FALSE,
   main |-> [listen |-> "80", locs |-> <<>>, indented |-> FALSE], extra |-> "none"]

NoExisting == [exists |-> FALSE, hasHttp |-> FALSE, hasHttps |-> FALSE, content |-> <<>>]

NoPending == [kind |-> "none", value |-> ""]

EmptyBatch == [queue |-> <<>>, renewed |-> <<>>, skipped |-> <<>>, failed |-> <<>>]

\* what a domain can look like before the tool runs
DomainStates ==
  { [dir |-> FALSE, hasCert |-> FALSE, days |-> 0, present |-> FALSE, ssh |-> FALSE, issuedAt |-> 0,
     files |-> NoFiles],
    [dir |-> TRUE,  hasCert |-> FALSE, days |-> 0, present |-> FALSE, ssh |-> FALSE, issuedAt |-> 0,
     files |-> NoFiles] }
  \cup { [dir |-> FALSE, hasCert |-> FALSE, days |-> 0, present |-> TRUE, ssh |-> s, issuedAt |-> 0,
          files |-> NoFiles] :
           s \in BOOLEAN }
  \cup { [dir |-> TRUE, hasCert |-> TRUE, days |-> n, present |-> TRUE, ssh |-> s, issuedAt |-> 1,
          files |-> IssuedFiles(m)] :
           n \in StoredDays, s \in BOOLEAN, m \in KeyModes }

RenewOptions ==
  { [NoOptions EXCEPT !.days = d, !.force = f] :
      d \in {[set |-> FALSE, val |-> 0]} \cup {[set |-> TRUE, val |-> v] : v \in PassedDays},
      f \in BOOLEAN }

InitCommon ==
  /\ client = FALSE
  /\ channel = "none"
  /\ op = [name |-> "none", options |-> NoOptions]
  /\ cur = "a.com"
  /\ pc = "idle"
  /\ remote = FALSE
  /\ authz = [n |-> 0, i |-> 0]
  /\ bundle = NoBundle
  /\ existing = NoExisting
  /\ pending = NoPending
  /\ batch = EmptyBatch
  /\ result = NoPending
  /\ log = <<>>
  /\ proofs = {}

Init ==
  /\ \E ds \in [Domains -> DomainStates] :
       /\ store = [d \in Domains |-> [dir |-> ds[d].dir, hasCert |-> ds[d].hasCert, days |-> ds[d].days,
                                       files |-> ds[d].files]]
       /\ registry = [d \in Domains |-> [present |-> ds[d].present, issuedAt |-> ds[d].issuedAt, ssh |-> ds[d].ssh]]
  /\ email \in BOOLEAN
  /\ conf = [d \in Domains |-> Absent]
  /\ backups = [d \in Domains |-> <<>>]
  /\ httpsConf = [d \in Domains |-> Absent]
  /\ shape = AbsentShape
  /\ remoteCerts = [d \in Domains |->
                      IF registry[d].ssh /\ store[d].hasCert THEN InstalledFiles ELSE NoRemoteFiles]
  /\ cfg = NoCfg
  /\ runs = NoRuns
  /\ accounts = {}
  /\ InitCommon

(***************************************************************************)
(* Returning to the caller                                                 *)
(***************************************************************************)

\* renewAll without the catch: the error of one domain ends the batch
renewAllSettleNoCatch(kind, value) ==
  IF kind = "throw"
  THEN [pc |-> "done", batch |-> batch, result |-> [kind |-> "throw", value |-> value]]
  ELSE IF value # "null"
       THEN [pc |-> "renewAll", batch |-> [batch EXCEPT !.renewed = Append(@, cur)], result |-> result]
       ELSE [pc |-> "renewAll", batch |-> [batch EXCEPT !.skipped = Append(@, cur)], result |-> result]

\* renewAll, the body of its loop once renew(domain) has terminated:
\* the three pushes and the catch
renewAllSettle(kind, value) ==
  IF kind = "throw"
  THEN [pc |-> "renewAll",
        batch |-> [batch EXCEPT !.failed = Append(@, [domain |-> cur, error |-> value])],
        result |-> result]
  ELSE IF value # "null"
       THEN [pc |-> "renewAll", batch |-> [batch EXCEPT !.renewed = Append(@, cur)], result |-> result]
       ELSE [pc |-> "renewAll", batch |-> [batch EXCEPT !.skipped = Append(@, cur)], result |-> result]

\* the running renew / issue / deploy terminates: control goes back to renewAll or to the CLI
Deliver(kind, value) ==
  IF op.name = "renewAll"
  THEN /\ pc' = renewAllSettle(kind, value).pc
       /\ batch' = renewAllSettle(kind, value).batch
       /\ result' = renewAllSettle(kind, value).result
  ELSE /\ pc' = "done"
       /\ batch' = batch
       /\ result' = [kind |-> kind, value |-> value]

\* an error that leaves the try block without running the finally block
RaiseNoFinally(msg) ==
  /\ pending' = pending
  /\ Deliver("throw", msg)

\* an error inside the try block of issueRemote or of deploy: the finally block runs first
Raise(msg) ==
  IF remote
  THEN /\ pending' = [kind |-> "throw", value |-> msg]
       /\ pc' = IF op.name = "deploy" THEN "deployDisconnect" ELSE "disconnect"
       /\ UNCHANGED << batch, result >>
  ELSE /\ pending' = pending
       /\ Deliver("throw", msg)

(***************************************************************************)
(* AutoCert.renewAll                                                       *)
(***************************************************************************)

\* CertificateManager.listDomains: the directories of certsDir
listDomains == SelectSeq(DomainOrder, LAMBDA d : store[d].dir)

StartRenewAll(o) ==
  /\ pc = "idle"
  /\ op' = [name |-> "renewAll", options |-> o]
  /\ batch' = [EmptyBatch EXCEPT !.queue = listDomains]
  /\ pc' = "renewAll"
  /\ log' = Append(log, <<"call", "renewAll">>)
  /\ UNCHANGED << runs, accounts, cfg, proofs, remoteCerts, store, registry, email, client, channel, conf, backups, httpsConf, shape, existing, cur, remote, authz,
                  bundle, pending, result >>

\* the loop goes on while the renew it started is still running
loopResumesEarly(p) == p \notin {"idle", "done"}

\* for (const domain of domains) { ... await this.renew(domain, options) ... }: the loop
\* goes on when the renew it awaits has settled
loopResumes(p) == p = "renewAll"

\* the head of the for loop: next domain, or return results
RenewAllNext ==
  /\ op.name = "renewAll"
  /\ loopResumes(pc)
  /\ IF batch.queue = <<>>
     THEN /\ pc' = "done"
          /\ result' = [kind |-> "return", value |-> "results"]
          /\ UNCHANGED << cur, batch >>
     ELSE /\ cur' = Head(batch.queue)
          /\ batch' = [batch EXCEPT !.queue = Tail(@)]
          /\ pc' = "renew"
          /\ result' = result
  /\ UNCHANGED << runs, accounts, cfg, proofs, remoteCerts, store, registry, email, client, channel, conf, backups, httpsConf, shape, existing, op, remote, authz,
                  bundle, pending, log >>

(***************************************************************************)
(* CertificateManager.renew                                                *)
(***************************************************************************)
StartRenew(d, o) ==
  /\ pc = "idle"
  /\ op' = [name |-> "renew", options |-> o]
  /\ cur' = d
  /\ pc' = "renew"
  /\ UNCHANGED << runs, accounts, cfg, proofs, remoteCerts, store, registry, email, client, channel, conf, backups, httpsConf, shape, existing, remote, authz,
                  bundle, pending, batch, result, log >>

\* options.daysBeforeExpiry || 30
daysBeforeExpiry(o) == IF o.days.set /\ o.days.val # 0 THEN o.days.val ELSE DefaultDays

\* getInfo: throws when the certificate cannot be read
getInfo(d) ==
  IF store[d].hasCert THEN [ok |-> TRUE, daysUntilExpiry |-> store[d].days]
  ELSE [ok |-> FALSE, daysUntilExpiry |-> 0]

Renew ==
  /\ pc = "renew"
  /\ LET o == op.options
         info == getInfo(cur)
     IN IF ~o.force /\ ~info.ok
        THEN /\ log' = Append(log, <<"renew", cur>>)
             /\ Deliver("throw", "cannot read certificate")
        ELSE IF ~o.force /\ info.daysUntilExpiry > daysBeforeExpiry(o)
             THEN /\ log' = Append(log, <<"renew", cur>>)
                  /\ Deliver("return", "null")
             ELSE /\ log' = Append(Append(log, <<"renew", cur>>), <<"issue", cur>>)
                  /\ pc' = "issue"
                  /\ UNCHANGED << batch, result >>
  /\ UNCHANGED << runs, accounts, cfg, proofs, remoteCerts, store, registry, email, client, channel, conf, backups, httpsConf, shape, existing, op, cur, remote,
                  authz, bundle, pending >>

(***************************************************************************)
(* CertificateManager.issue, issueLocal, issueRemote                       *)
(***************************************************************************)
ChallengeTypes == {"http-01", "dns-01"}

\* options.dnsProvider || config.dnsProvider: no name, or the name of a provider
DnsProviders == {"none", "cloudflare"}

\* what the issue command passes: --type, --no-cleanup and --dns-provider (a provider
\* name is only read for dns-01)
IssueOptions ==
  { o \in { [NoOptions EXCEPT !.challengeType = t, !.cleanup = c, !.dnsProvider = p] :
               t \in ChallengeTypes, c \in BOOLEAN, p \in DnsProviders } :
      o.dnsProvider = "none" \/ o.challengeType = "dns-01" }

StartIssue(d) ==
  /\ pc = "idle"
  /\ \E o \in IssueOptions : op' = [name |-> "issue", options |-> o]
  /\ cur' = d
  /\ pc' = "issue"
  /\ log' = Append(log, <<"issue", d>>)
  /\ UNCHANGED << runs, accounts, cfg, proofs, remoteCerts, store, registry, email, client, channel, conf, backups, httpsConf, shape, existing, remote, authz,
                  bundle, pending, batch, result >>

\* getClient without the check of config.email
getClientNoCheck(cached, mail) == [ok |-> TRUE, created |-> ~cached]

\* getClient: the cached client, or the throw when config.email is not set, or a new
\* client with createAccount
getClient(cached, mail) ==
  IF cached THEN [ok |-> TRUE, created |-> FALSE]
  ELSE IF ~mail THEN [ok |-> FALSE, created |-> FALSE]
  ELSE [ok |-> TRUE, created |-> TRUE]

\* issue: getClient, getDomainConfig, choice of the mode
Issue ==
  /\ pc = "issue"
  /\ IF ~getClient(client, email).ok
     THEN /\ Deliver("throw", "email not configured")
          /\ UNCHANGED << client, remote, log >>
     ELSE /\ client' = TRUE
          /\ remote' = registry[cur].ssh
          /\ log' = IF getClient(client, email).created
                    THEN Append(log, <<"acme", "createAccount">>) ELSE log
          /\ pc' = IF registry[cur].ssh THEN "connect" ELSE "createOrder"
          /\ UNCHANGED << batch, result >>
  /\ UNCHANGED << runs, accounts, cfg, proofs, remoteCerts, store, registry, email, channel, conf, backups, httpsConf, shape, existing, op, cur, authz, bundle, pending >>

\* issueRemote: sshClient.connect(), before the try block
IssueConnect ==
  /\ pc = "connect"
  /\ \E ok \in BOOLEAN :
       IF ok
       THEN /\ channel' = "connected"
            /\ pc' = "createOrder"
            /\ UNCHANGED << batch, result >>
       ELSE /\ channel' = channel
            /\ Deliver("throw", "ssh connect failed")
  /\ log' = Append(log, <<"ssh", "connect">>)
  /\ UNCHANGED << runs, accounts, cfg, proofs, remoteCerts, store, registry, email, client, conf, backups, httpsConf, shape, existing, op, cur, remote, authz,
                  bundle, pending >>

\* the call, and the error when it rejected
Called(entry, name, ok) ==
  IF ok THEN Append(log, entry) ELSE Append(Append(log, entry), <<"throw", name>>)

\* a rejected await is not noticed
callFailedNever(ok) == FALSE

\* await: a rejected promise throws at the await
callFailed(ok) == ~ok

\* a call of the ACME client that either succeeds or throws
AcmeCall(here, name, next, ok) ==
  /\ pc = here
  /\ log' = Called(<<"acme", name>>, name, ok)
  /\ IF callFailed(ok)
     THEN Raise(name)
     ELSE /\ pc' = next
          /\ UNCHANGED << pending, batch, result >>
  /\ UNCHANGED << runs, accounts, cfg, proofs, remoteCerts, store, registry, email, client, channel, conf, backups, httpsConf, shape, existing,
                  op, cur, remote >>

CreateOrder ==
  /\ \E ok \in BOOLEAN : AcmeCall("createOrder", "createOrder", "getAuthorizations", ok)
  /\ UNCHANGED << authz, bundle >>

GetAuthorizations ==
  /\ \/ /\ AcmeCall("getAuthorizations", "getAuthorizations", "prepare", TRUE)
        /\ \E n \in 1..MaxAuthz : authz' = [n |-> n, i |-> 1]
     \/ /\ AcmeCall("getAuthorizations", "getAuthorizations", "prepare", FALSE)
        /\ authz' = authz
  /\ UNCHANGED bundle

\* SshClient.exists: test -e path && echo "EXISTS" || echo "NOT_EXISTS", then stdout.includes('EXISTS')
sshExists(there) ==
  LET stdout == IF there THEN << "EXISTS" >> ELSE << "NOT_EXISTS" >>
  IN Includes(stdout, "EXISTS")

\* createChallengeHandler(type, options)
createChallengeHandler(type) ==
  CASE type = "http-01" -> "Http01Handler"
    [] type = "dns-01"  -> "Dns01Handler"

\* the handler whose prepare and cleanup the attempt uses
challengeHandler ==
  IF remote THEN "Http01RemoteHandler" ELSE createChallengeHandler(op.options.challengeType)

\* the handlers that write the key authorization to a file under the web root
FileHandlers == {"Http01Handler", "Http01RemoteHandler"}

\* the proof of the authorization being processed
thisProof == [domain |-> cur, i |-> authz.i, challenge |-> op.options.challengeType]

\* the catch block replaces the error
challengeCatchGeneric(err) == "challenge failed"

\* catch (err) { console.warn(...); throw err; }
challengeCatch(err) == err

\* Dns01Handler.getProviderClient: every provider name ends in a throw
getProviderClient(provider) ==
  CASE provider \in {"cloudflare", "aliyun", "aws", "route53"} -> [ok |-> FALSE, err |-> "not implemented"]
    [] OTHER -> [ok |-> FALSE, err |-> "unsupported provider"]

\* Dns01Handler.prepare: throws without a provider name, otherwise waits 60 s and returns
Dns01Prepare(provider) ==
  IF provider = "none" THEN [ok |-> FALSE, file |-> FALSE, calls |-> <<>>]
  ELSE [ok |-> TRUE, file |-> FALSE, calls |-> << <<"sleep", "60000">> >>]

\* Http01Handler.prepare: mkdir and writeFile
Http01Prepare(outcome) ==
  CASE outcome = "written"      -> [ok |-> TRUE,  file |-> TRUE,  calls |-> <<>>]
    [] outcome = "write failed" -> [ok |-> FALSE, file |-> FALSE, calls |-> <<>>]

\* Http01RemoteHandler.prepare: mkdir, exists, writeFile, exists, chmod; the write
\* stream can close without the file being there, and exec can reject after the write
Http01RemotePrepare(outcome) ==
  CASE outcome = "written"      -> [ok |-> sshExists(TRUE),  file |-> TRUE,  calls |-> <<>>]
    [] outcome = "not written"  -> [ok |-> sshExists(FALSE), file |-> FALSE, calls |-> <<>>]
    [] outcome = "write failed" -> [ok |-> FALSE, file |-> FALSE, calls |-> <<>>]
    [] outcome = "exec failed"  -> [ok |-> FALSE, file |-> TRUE,  calls |-> <<>>]

\* what the file system and the channel do to one prepare; a renew and a batch run see
\* a write that lands or a write that is rejected
PrepareOutcomes ==
  IF challengeHandler = "Http01RemoteHandler" /\ op.name = "issue"
  THEN {"written", "not written", "write failed", "exec failed"}
  ELSE {"written", "write failed"}

\* handler.prepare(challenge, keyAuthorization, identifier)
handlerPrepare(outcome) ==
  CASE challengeHandler = "Http01Handler"       -> Http01Prepare(outcome)
    [] challengeHandler = "Http01RemoteHandler" -> Http01RemotePrepare(outcome)
    [] challengeHandler = "Dns01Handler"        -> Dns01Prepare(op.options.dnsProvider)

\* processChallenge: the challenge lookup and handler.prepare
Prepare ==
  /\ pc = "prepare"
  /\ \E r \in { handlerPrepare(o) : o \in PrepareOutcomes } :
       /\ proofs' = IF r.file THEN proofs \cup {thisProof} ELSE proofs
       /\ IF callFailed(r.ok)
          THEN /\ log' = Called(<<"prepare", authz.i>>, "prepare", r.ok)
               /\ Raise(challengeCatch("prepare"))
          ELSE /\ log' = Called(<<"prepare", authz.i>>, "prepare", TRUE) \o r.calls
                         \o (IF r.file THEN << <<"proof written", authz.i>> >> ELSE <<>>)
               /\ pc' = "completeChallenge"
               /\ UNCHANGED << pending, batch, result >>
  /\ UNCHANGED << runs, accounts, cfg, remoteCerts, store, registry, email, client, channel, conf, backups, httpsConf, shape, existing, op, cur, remote,
                  authz, bundle >>

\* processChallenge: client.completeChallenge
CompleteChallenge ==
  /\ pc = "completeChallenge"
  /\ \E ok \in BOOLEAN :
       /\ log' = Called(<<"acme", "completeChallenge">>, "completeChallenge", ok)
       /\ IF callFailed(ok)
          THEN Raise(challengeCatch("completeChallenge"))
          ELSE /\ pc' = "waitForValidStatus"
               /\ UNCHANGED << pending, batch, result >>
  /\ UNCHANGED << runs, accounts, cfg, proofs, remoteCerts, store, registry, email, client, channel, conf, backups, httpsConf, shape, existing, op, cur, remote,
                  authz, bundle >>

\* the attempt has seen a proof that was not written or a cleanup call that failed
ProofFault ==
  /\ challengeHandler \in FileHandlers
  /\ \/ \E i \in 1..Len(log) : log[i][1] = "cleanup failed"
     \/ Cardinality({ i \in 1..Len(log) : log[i][1] = "prepare" })
          # Cardinality({ i \in 1..Len(log) : log[i][1] = "proof written" })

\* the options of the validation polling
retries == 15
interval == 3000
timeout == 120000

\* the poll at which the server reports the challenge valid: the first, the last one
\* allowed, or a later one; the last one allowed is seen by an issue whose order has a
\* single authorization and no proof fault
ValidAfter ==
  IF op.name = "issue" /\ authz.n = 1 /\ ~ProofFault
  THEN {1, retries, retries + 1}
  ELSE {1, retries + 1}

\* polling that goes on until the challenge is valid
waitForValidStatusUnbounded(validAt) == [ok |-> TRUE, polls |-> validAt]

\* client.waitForValidStatus(challenge, { retries, interval, timeout }): polls until the
\* challenge is valid, the attempts are used up or the time is over
waitForValidStatus(validAt) ==
  [ok |-> validAt <= retries /\ (validAt - 1) * interval <= timeout,
   polls |-> Min({validAt, retries, (timeout \div interval) + 1})]

\* processChallenge: client.waitForValidStatus, then the next authorization
WaitForValidStatus ==
  /\ pc = "waitForValidStatus"
  /\ \E w \in { waitForValidStatus(v) : v \in ValidAfter } :
     LET ok == w.ok IN
       /\ log' = Append(log, <<"acme", "waitForValidStatus">>) \o << <<"polls", w.polls>> >>
                   \o (IF ok THEN <<>> ELSE << <<"throw", "waitForValidStatus">> >>)
       /\ IF callFailed(ok)
          THEN /\ authz' = authz
               /\ Raise(challengeCatch("waitForValidStatus"))
          ELSE /\ IF authz.i < authz.n
                  THEN /\ authz' = [authz EXCEPT !.i = @ + 1]
                       /\ pc' = "prepare"
                  ELSE /\ authz' = authz
                       /\ pc' = "cleanup"
               /\ UNCHANGED << pending, batch, result >>
  /\ UNCHANGED << runs, accounts, cfg, proofs, remoteCerts, store, registry, email, client, channel, conf, backups, httpsConf, shape, existing, op, cur, remote, bundle >>

\* the cleanup calls that fail: unlink or rm rejected; a renew and a batch run see none
\* fail, and the cleanup of Dns01Handler has nothing that can fail
CleanupFailures ==
  IF op.name # "issue" \/ challengeHandler \notin FileHandlers
  THEN { {} }
  ELSE SUBSET (1..authz.n)

\* the catch block of cleanup lets the error through
cleanupRethrows(failed) == failed # {}

\* handler.cleanup: try { unlink / exists, rm -f } catch (err) { warn or ignore }
cleanupThrows(failed) == FALSE

\* the cleanup loop after all authorizations validated (unless options.cleanup is
\* false), then createCsr
Cleanup ==
  /\ pc = "cleanup"
  /\ IF op.options.cleanup
     THEN \E failed \in CleanupFailures :
            LET called == Append(log, <<"cleanup", authz.n>>)
                noted  == IF failed = {} THEN called
                          ELSE Append(called, <<"cleanup failed", Cardinality(failed)>>)
            IN /\ proofs' = IF challengeHandler \in FileHandlers
                            THEN { pr \in proofs : pr.domain # cur \/ pr.i \in failed }
                            ELSE proofs
               /\ IF cleanupThrows(failed)
                  THEN /\ log' = Append(noted, <<"throw", "cleanup">>)
                       /\ Raise(challengeCatch("cleanup"))
                  ELSE /\ log' = noted
                       /\ pc' = "finalizeOrder"
                       /\ UNCHANGED << pending, batch, result >>
     ELSE /\ pc' = "finalizeOrder"
          /\ UNCHANGED << log, proofs, pending, batch, result >>
  /\ UNCHANGED << runs, accounts, cfg, remoteCerts, store, registry, email, client, channel, conf, backups, httpsConf, shape, existing, op, cur, remote,
                  authz, bundle >>

FinalizeOrder ==
  /\ \E ok \in BOOLEAN : AcmeCall("finalizeOrder", "finalizeOrder", "getCertificate", ok)
  /\ UNCHANGED << authz, bundle >>

\* the bundles the server answers with; a batch run and an attempt with a proof fault
\* see an empty and a usual one
ServerBundles ==
  IF op.name = "renewAll" \/ ProofFault
  THEN { NoBundle, [certs |-> <<"leaf", "ca1">>, sep |-> <<"NL">>] }
  ELSE Bundles

GetCertificate ==
  /\ \/ /\ AcmeCall("getCertificate", "getCertificate", "saveCertificate", TRUE)
        /\ \E b \in ServerBundles : bundle' = b
     \/ /\ AcmeCall("getCertificate", "getCertificate", "saveCertificate", FALSE)
        /\ bundle' = bundle
  /\ UNCHANGED authz

\* try { domains = yaml.load(content) || {} } catch (err) { }: a registry that cannot be
\* read or parsed counts as an empty one
readDomains(reg, readable) ==
  IF readable THEN reg ELSE [d \in Domains |-> NoRecord]

\* domains[domain] = { ...existingConfig, issuedAt, email, webRoot }
putRecord(domains, d) ==
  [domains EXCEPT ![d] = [present |-> TRUE, issuedAt |-> 2, ssh |-> domains[d].ssh]]

\* the outcomes of reading domains.yaml seen by one run; a failed read is seen by an
\* issue whose order has a single authorization and no proof fault
RegistryReads == IF op.name = "issue" /\ authz.n = 1 /\ ~ProofFault THEN BOOLEAN ELSE {TRUE}

\* saveDomainConfig: the registry file after a successful issuance, rewritten as a whole
saveDomainConfig(d, readable) == putRecord(readDomains(registry, readable), d)

\* saveCertificate, then the return of issueLocal or the upload of issueRemote
SaveCertificate ==
  /\ pc = "saveCertificate"
  /\ LET cert == RenderBundle(bundle.certs, bundle.sep)
         old == store[cur].files
         key == writeFile(old.key, <<"key">>, "0600")
     IN IF matchCertificates(cert) = <<>>
        THEN /\ log' = Called(<<"fs", "saveCertificate">>, "saveCertificate", FALSE)
             /\ store' = [store EXCEPT ![cur].dir = TRUE, ![cur].files.key = key]
             /\ registry' = registry
             /\ Raise("invalid certificate data")
        ELSE /\ store' = [store EXCEPT ![cur] =
                           [dir |-> TRUE, hasCert |-> TRUE, days |-> 90,
                            files |-> [n \in ArtifactNames |->
                                         IF n = "key" THEN key
                                         ELSE writeFile(old[n], splitBundle(cert)[n], "0644")]]]
             /\ \E readable \in RegistryReads :
                  /\ registry' = saveDomainConfig(cur, readable)
                  /\ log' = IF readable
                            THEN Called(<<"fs", "saveCertificate">>, "saveCertificate", TRUE)
                            ELSE Called(<<"fs", "saveCertificate">>, "saveCertificate", TRUE)
                                   \o << <<"registry", "unreadable">> >>
             /\ IF remote
                THEN /\ pc' = "installCertificate"
                     /\ UNCHANGED << pending, batch, result >>
                ELSE /\ pending' = pending
                     /\ Deliver("return", "paths")
  /\ UNCHANGED << runs, accounts, cfg, proofs, remoteCerts, email, client, channel, conf, backups, httpsConf, shape, existing, op, cur, remote, authz, bundle >>

MaxUploadFailures == 1

\* per file: uploaded and chmod done, fastPut rejected, or chmod did not succeed
UploadOutcomes ==
  { o \in [ArtifactNames -> {"ok", "upload failed", "chmod failed"}] :
      Cardinality({ n \in ArtifactNames : o[n] # "ok" }) <= MaxUploadFailures }

\* the outcomes seen by one run; a batch run and an attempt with a proof fault see a
\* clean upload or a rejected key upload
RunUploadOutcomes ==
  IF op.name = "renewAll" \/ ProofFault
  THEN { o \in UploadOutcomes : \A n \in ArtifactNames \ {"key"} : o[n] = "ok" /\ o["key"] # "chmod failed" }
  ELSE UploadOutcomes

\* the body of the upload loop: try { uploadFile; chmod } catch { log and skip };
\* the exit code of chmod is not looked at
uploadOne(old, name, outcome) ==
  CASE outcome = "ok" -> [gen |-> 2, mode |-> IF name = "key" THEN "600" ELSE "644"]
    [] outcome = "upload failed" -> old
    [] outcome = "chmod failed" -> [gen |-> 2, mode |-> IF old.gen = 0 THEN "default" ELSE old.mode]

\* SshClient.installCertificate: mkdir can throw, a failed upload or chmod is skipped
InstallCertificate ==
  /\ pc = "installCertificate"
  /\ \E ok \in BOOLEAN :
       /\ log' = Called(<<"ssh", "installCertificate">>, "installCertificate", ok)
       /\ IF callFailed(ok)
          THEN /\ remoteCerts' = remoteCerts
               /\ Raise("remote mkdir failed")
          ELSE /\ \E o \in RunUploadOutcomes :
                    remoteCerts' = [remoteCerts EXCEPT ![cur] =
                                      [n \in ArtifactNames |-> uploadOne(remoteCerts[cur][n], n, o[n])]]
               /\ pending' = [kind |-> "return", value |-> "paths"]
               /\ pc' = "disconnect"
               /\ UNCHANGED << batch, result >>
  /\ UNCHANGED << runs, accounts, cfg, proofs, store, registry, email, client, channel, conf, backups, httpsConf, shape, existing, op, cur, remote,
                  authz, bundle >>

\* SshClient.disconnect
disconnect(c) == "closed"

\* issueRemote: the finally block, then the return or the rethrow
IssueFinally ==
  /\ pc = "disconnect"
  /\ channel' = disconnect(channel)
  /\ log' = Append(log, <<"ssh", "disconnect">>)
  /\ pending' = NoPending
  /\ Deliver(pending.kind, pending.value)
  /\ UNCHANGED << runs, accounts, cfg, proofs, remoteCerts, store, registry, email, client, conf, backups, httpsConf, shape, existing, op, cur, remote, authz, bundle >>

(***************************************************************************)
(* AutoCert.deploy and NginxManager.deploy                                 *)
(***************************************************************************)
DeployOptions ==
  { [NoOptions EXCEPT !.backup = b, !.reload = r, !.variant = v] :
      b \in BOOLEAN, r \in BOOLEAN, v \in {"transform", "separate"} }

StartDeploy(d, o) ==
  /\ pc = "idle"
  /\ op' = [name |-> "deploy", options |-> o]
  /\ cur' = d
  /\ pc' = "deploy"
  /\ log' = Append(log, <<"deploy", d>>)
  /\ UNCHANGED << runs, accounts, cfg, proofs, remoteCerts, store, registry, email, client, channel, conf, backups, httpsConf, shape, existing,
                  remote, authz, bundle, pending, batch, result >>

\* AutoCert.deploy: getDomainConfig and the choice of the mode
Deploy ==
  /\ pc = "deploy"
  /\ remote' = registry[cur].ssh
  /\ pc' = IF registry[cur].ssh THEN "deployConnect" ELSE "deployLocal"
  /\ UNCHANGED << runs, accounts, cfg, proofs, remoteCerts, store, registry, email, client, channel, conf, backups, httpsConf, shape, existing,
                  op, cur, authz, bundle, pending, batch, result, log >>

\* AutoCert.deploy: sshClient.connect(), before the try block
DeployConnect ==
  /\ pc = "deployConnect"
  /\ \E ok \in BOOLEAN :
       IF ok
       THEN /\ channel' = "connected"
            /\ pc' = "deployRemote"
            /\ UNCHANGED << batch, result >>
       ELSE /\ channel' = channel
            /\ Deliver("throw", "ssh connect failed")
  /\ log' = Append(log, <<"ssh", "connect">>)
  /\ UNCHANGED << runs, accounts, cfg, proofs, remoteCerts, store, registry, email, client, conf, backups, httpsConf, shape, existing,
                  op, cur, remote, authz, bundle, pending >>

\* a deploy returns: in remote mode the finally block of AutoCert.deploy runs first
Return(value) ==
  IF remote
  THEN /\ pending' = [kind |-> "return", value |-> value]
       /\ pc' = "deployDisconnect"
       /\ UNCHANGED << batch, result >>
  ELSE /\ pending' = pending
       /\ Deliver("return", value)

\* checkExistingConfig
checkExistingConfig(content) ==
  IF content = Absent THEN NoExisting
  ELSE [exists |-> TRUE,
        hasHttp |-> Includes(content, "listen 80"),
        hasHttps |-> Includes(content, "listen 443") \/ Includes(content, "ssl_certificate"),
        content |-> content]

\* backupConfig: copy the config to <configPath>.backup.<now>
backupConfig(d) == Append(backups[d], conf[d])

\* restoreBackup: copy the most recent backup, if there is one, over the config
restoreBackup(d) == IF backups[d] = <<>> THEN conf[d] ELSE backups[d][Len(backups[d])]

\* the value deployLocal / deployRemote return
deployAction ==
  IF op.options.variant = "separate" THEN "undefined"
  ELSE IF existing.exists THEN "transformed" ELSE "created"

\* deployLocal of the transforming variant, up to the write of the config
DeployLocal ==
  /\ pc = "deployLocal"
  /\ op.options.variant = "transform"
  /\ LET ex == checkExistingConfig(conf[cur])
         t  == transformHttpToHttps(ex.content)
         backedUp == IF op.options.backup THEN Append(log, <<"fs", "backup">>) ELSE log
     IN /\ existing' = ex
        /\ IF ex.exists
           THEN IF ex.hasHttps
                THEN /\ Deliver("return", "skipped")
                     /\ UNCHANGED << conf, backups, log >>
                ELSE /\ backups' = IF op.options.backup
                                   THEN [backups EXCEPT ![cur] = backupConfig(cur)]
                                   ELSE backups
                     /\ IF t.ok
                        THEN /\ conf' = [conf EXCEPT ![cur] = t.text]
                             /\ log' = Append(backedUp, <<"fs", "write">>)
                             /\ pc' = "testConfig"
                             /\ UNCHANGED << batch, result >>
                        ELSE /\ conf' = conf
                             /\ log' = backedUp
                             /\ Deliver("throw", t.err)
           ELSE /\ conf' = [conf EXCEPT ![cur] = generateConfig]
                /\ log' = Append(log, <<"fs", "write">>)
                /\ pc' = "testConfig"
                /\ UNCHANGED << backups, batch, result >>
  /\ UNCHANGED << runs, accounts, cfg, proofs, remoteCerts, store, registry, email, client, channel, httpsConf, shape, op, cur, remote,
                  authz, bundle, pending >>

\* deployRemote of the transforming variant, up to the write of the config
DeployRemote ==
  /\ pc = "deployRemote"
  /\ op.options.variant = "transform"
  /\ \E mkdirOk \in BOOLEAN :
       LET exists == sshExists(conf[cur] # Absent)
           hasHttps == Includes(conf[cur], "listen 443") \/ Includes(conf[cur], "ssl_certificate")
           t == transformHttpToHttps(conf[cur])
       IN IF ~mkdirOk
          THEN /\ Raise("remote mkdir failed")
               /\ UNCHANGED << conf, backups, existing, log >>
          ELSE IF exists
               THEN IF conf[cur] = Absent
                    THEN /\ Raise("remote read failed")
                         /\ existing' = [NoExisting EXCEPT !.exists = TRUE]
                         /\ UNCHANGED << conf, backups, log >>
                    ELSE /\ existing' = [exists |-> TRUE, hasHttp |-> Includes(conf[cur], "listen 80"),
                                         hasHttps |-> hasHttps, content |-> conf[cur]]
                         /\ IF hasHttps
                            THEN /\ Return("skipped")
                                 /\ UNCHANGED << conf, backups, log >>
                            ELSE /\ backups' = [backups EXCEPT ![cur] = backupConfig(cur)]
                                 /\ IF t.ok
                                    THEN /\ conf' = [conf EXCEPT ![cur] = t.text]
                                         /\ log' = Append(Append(log, <<"fs", "backup">>), <<"fs", "write">>)
                                         /\ pc' = "testNginx"
                                         /\ UNCHANGED << pending, batch, result >>
                                    ELSE /\ conf' = conf
                                         /\ log' = Append(log, <<"fs", "backup">>)
                                         /\ Raise(t.err)
               ELSE /\ existing' = NoExisting
                    /\ conf' = [conf EXCEPT ![cur] = generateConfig]
                    /\ log' = Append(log, <<"fs", "write">>)
                    /\ pc' = "testNginx"
                    /\ UNCHANGED << backups, pending, batch, result >>
  /\ UNCHANGED << runs, accounts, cfg, proofs, remoteCerts, store, registry, email, client, channel, httpsConf, shape, op, cur, remote,
                  authz, bundle >>

\* generateConfig of the variant that writes a separate <domain>-https.conf
libGenerateConfig(skipHttpRedirect, isRemote) ==
  (IF skipHttpRedirect THEN <<>>
   ELSE << "server", "SP", "{", "NL",
           "SP", "listen 80;", "NL",
           "SP", "listen [::]:80;", "NL",
           "SP", "server_name;", "NL",
           "SP", "location", "SP", "/.well-known/acme-challenge/", "SP", "{", "NL",
           "SP", "alias acme-challenge;", "NL",
           "SP", "}", "NL",
           "SP", "location", "SP", "/", "SP", "{", "NL",
           "SP", "return 301 https;", "NL",
           "SP", "}", "NL",
           "}", "NL", "NL" >>)
  \o << "server", "SP", "{", "NL",
        "SP", "listen 443 ssl http2;", "NL",
        "SP", "listen [::]:443 ssl http2;", "NL",
        "SP", "server_name;", "NL",
        "SP", "ssl_certificate cert.pem;", "NL",
        "SP", "ssl_certificate_key cert.key;", "NL" >>
  \o (IF isRemote THEN <<>> ELSE << "SP", "ssl_trusted_certificate chain.pem;", "NL" >>)
  \o << "SP", "ssl_protocols;", "NL",
        "SP", "add_header;", "NL",
        "SP", "location", "SP", "/", "SP", "{", "NL",
        "SP", "proxy_pass upstream;", "NL",
        "SP", "}", "NL",
        "}" >>

\* deployLocal of the variant that writes a separate https file, up to the write
DeployLocalSeparate ==
  /\ pc = "deployLocal"
  /\ op.options.variant = "separate"
  /\ LET ex == checkExistingConfig(conf[cur])
     IN /\ existing' = ex
        /\ IF ex.exists /\ ex.hasHttps
           THEN /\ backups' = IF op.options.backup
                              THEN [backups EXCEPT ![cur] = backupConfig(cur)]
                              ELSE backups
                /\ conf' = [conf EXCEPT ![cur] = libGenerateConfig(FALSE, FALSE)]
                /\ httpsConf' = httpsConf
                /\ log' = Append(IF op.options.backup THEN Append(log, <<"fs", "backup">>) ELSE log,
                                 <<"fs", "write">>)
           ELSE IF ex.exists /\ ex.hasHttp
                THEN /\ httpsConf' = [httpsConf EXCEPT ![cur] = libGenerateConfig(TRUE, FALSE)]
                     /\ log' = Append(log, <<"fs", "write">>)
                     /\ UNCHANGED << conf, backups >>
                ELSE /\ conf' = [conf EXCEPT ![cur] = libGenerateConfig(FALSE, FALSE)]
                     /\ log' = Append(log, <<"fs", "write">>)
                     /\ UNCHANGED << httpsConf, backups >>
  /\ pc' = "testConfig"
  /\ UNCHANGED << runs, accounts, cfg, proofs, remoteCerts, store, registry, email, client, channel, shape, op, cur, remote,
                  authz, bundle, pending, batch, result >>

\* deployRemote of the variant that writes a separate https file, up to the write
DeployRemoteSeparate ==
  /\ pc = "deployRemote"
  /\ op.options.variant = "separate"
  /\ \E mkdirOk \in BOOLEAN :
       LET exists == sshExists(conf[cur] # Absent)
           hasHttp == Includes(conf[cur], "listen 80")
           hasHttps == Includes(conf[cur], "listen 443") \/ Includes(conf[cur], "ssl_certificate")
       IN IF ~mkdirOk
          THEN /\ Raise("remote mkdir failed")
               /\ UNCHANGED << conf, httpsConf, backups, existing, log >>
          ELSE IF exists /\ conf[cur] = Absent
               THEN /\ Raise("remote read failed")
                    /\ existing' = [NoExisting EXCEPT !.exists = TRUE]
                    /\ UNCHANGED << conf, httpsConf, backups, log >>
               ELSE /\ existing' = [exists |-> exists, hasHttp |-> hasHttp, hasHttps |-> hasHttps,
                                    content |-> conf[cur]]
                    /\ pc' = "testNginx"
                    /\ UNCHANGED << pending, batch, result >>
                    /\ IF exists /\ hasHttps
                       THEN /\ backups' = [backups EXCEPT ![cur] = backupConfig(cur)]
                            /\ conf' = [conf EXCEPT ![cur] = libGenerateConfig(FALSE, TRUE)]
                            /\ httpsConf' = httpsConf
                            /\ log' = Append(Append(log, <<"fs", "backup">>), <<"fs", "write">>)
                       ELSE IF exists /\ hasHttp
                            THEN /\ httpsConf' = [httpsConf EXCEPT ![cur] = libGenerateConfig(TRUE, TRUE)]
                                 /\ log' = Append(log, <<"fs", "write">>)
                                 /\ UNCHANGED << conf, backups >>
                            ELSE /\ conf' = [conf EXCEPT ![cur] = libGenerateConfig(FALSE, TRUE)]
                                 /\ log' = Append(log, <<"fs", "write">>)
                                 /\ UNCHANGED << httpsConf, backups >>
  /\ UNCHANGED << runs, accounts, cfg, proofs, remoteCerts, store, registry, email, client, channel, shape, op, cur, remote, authz, bundle >>

\* the result of the self-test is ignored
testFailedNever(pass) == FALSE

\* if (!(await this.testConfig())) / if (!(await sshClient.testNginx()))
testFailed(pass) == ~pass

\* testConfig of deployLocal, the restore after a failed test, and the choice to reload
TestConfig ==
  /\ pc = "testConfig"
  /\ \E pass \in BOOLEAN :
       IF testFailed(pass)
       THEN /\ IF existing.exists /\ op.options.backup
               THEN /\ conf' = [conf EXCEPT ![cur] = restoreBackup(cur)]
                    /\ log' = Append(Append(log, <<"nginx -t", "fail">>), <<"fs", "restore">>)
               ELSE /\ conf' = conf
                    /\ log' = Append(log, <<"nginx -t", "fail">>)
            /\ Deliver("throw", "nginx config test failed")
       ELSE /\ log' = Append(log, <<"nginx -t", IF pass THEN "pass" ELSE "fail">>)
            /\ conf' = conf
            /\ IF op.options.reload
               THEN /\ pc' = "reload"
                    /\ UNCHANGED << batch, result >>
               ELSE Deliver("return", deployAction)
  /\ UNCHANGED << runs, accounts, cfg, proofs, remoteCerts, store, registry, email, client, channel, backups, httpsConf, shape, existing,
                  op, cur, remote, authz, bundle, pending >>

\* the failure of the reload command is swallowed
reloadFailedNever(ok) == FALSE

\* reload: catch (err) { throw new Error(...) }; reloadNginx: if (result.code !== 0) throw
reloadFailed(ok) == ~ok

\* NginxManager.reload, then the return of deployLocal
Reload ==
  /\ pc = "reload"
  /\ \E ok \in BOOLEAN :
       /\ log' = Called(<<"exec", "nginx -s reload">>, "reload", ok)
       /\ IF reloadFailed(ok)
          THEN Deliver("throw", "nginx reload failed")
          ELSE Deliver("return", deployAction)
  /\ UNCHANGED << runs, accounts, cfg, proofs, remoteCerts, store, registry, email, client, channel, conf, backups, httpsConf, shape, existing,
                  op, cur, remote, authz, bundle, pending >>

\* sshClient.testNginx of deployRemote and the choice to reload
TestNginx ==
  /\ pc = "testNginx"
  /\ \E pass \in BOOLEAN :
       /\ log' = Append(log, <<"nginx -t", IF pass THEN "pass" ELSE "fail">>)
       /\ IF testFailed(pass)
          THEN Raise("remote nginx config test failed")
          ELSE IF op.options.reload
               THEN /\ pc' = "reloadNginx"
                    /\ UNCHANGED << pending, batch, result >>
               ELSE Return(deployAction)
  /\ UNCHANGED << runs, accounts, cfg, proofs, remoteCerts, store, registry, email, client, channel, conf, backups, httpsConf, shape, existing,
                  op, cur, remote, authz, bundle >>

\* sshClient.reloadNginx, then the return of deployRemote
ReloadNginx ==
  /\ pc = "reloadNginx"
  /\ \E ok \in BOOLEAN :
       /\ log' = Called(<<"exec", "nginx -s reload">>, "reload", ok)
       /\ IF reloadFailed(ok)
          THEN Raise("remote nginx reload failed")
          ELSE Return(deployAction)
  /\ UNCHANGED << runs, accounts, cfg, proofs, remoteCerts, store, registry, email, client, channel, conf, backups, httpsConf, shape, existing,
                  op, cur, remote, authz, bundle >>

\* AutoCert.deploy: the finally block, then the return or the rethrow
DeployFinally ==
  /\ pc = "deployDisconnect"
  /\ channel' = disconnect(channel)
  /\ log' = Append(log, <<"ssh", "disconnect">>)
  /\ pending' = NoPending
  /\ Deliver(pending.kind, pending.value)
  /\ UNCHANGED << runs, accounts, cfg, proofs, remoteCerts, store, registry, email, client, conf, backups, httpsConf, shape, existing,
                  op, cur, remote, authz, bundle >>

(***************************************************************************)
(* Specifications                                                          *)
(***************************************************************************)

\* the steps of one issuance
IssueNext ==
  \/ Issue
  \/ IssueConnect
  \/ CreateOrder
  \/ GetAuthorizations
  \/ Prepare
  \/ CompleteChallenge
  \/ WaitForValidStatus
  \/ Cleanup
  \/ FinalizeOrder
  \/ GetCertificate
  \/ SaveCertificate
  \/ InstallCertificate
  \/ IssueFinally

\* issue, renew and renewAll over every certificate store and registry
Next ==
  \/ \E o \in RenewOptions : StartRenewAll(o)
  \/ RenewAllNext
  \/ \E d \in Domains, o \in RenewOptions : StartRenew(d, o)
  \/ Renew
  \/ \E d \in Domains : StartIssue(d)
  \/ IssueNext

Spec == Init /\ [][Next]_vars

\* one local and one remote domain, both issued; every existing config file
InitDeploy ==
  /\ store = [d \in Domains |-> [dir |-> TRUE, hasCert |-> TRUE, days |-> 30,
                               files |-> IssuedFiles("0600")]]
  /\ registry = [d \in Domains |-> [present |-> TRUE, issuedAt |-> 1, ssh |-> (d = "b.com")]]
  /\ email = TRUE
  /\ \E s \in {AbsentShape} \cup { [present |-> TRUE, upstream |-> c.upstream, main |-> c.main,
                                   extra |-> c.extra] : c \in ConfigShapes } :
       /\ shape = s
       /\ conf = [d \in Domains |-> IF s.present THEN RenderConfig(s) ELSE Absent]
  /\ \E old \in BOOLEAN :
       backups = [d \in Domains |-> IF old THEN << generateConfig >> ELSE <<>>]
  /\ httpsConf = [d \in Domains |-> Absent]
  /\ remoteCerts = [d \in Domains |-> IF d = "b.com" THEN InstalledFiles ELSE NoRemoteFiles]
  /\ cfg = NoCfg
  /\ runs = NoRuns
  /\ accounts = {}
  /\ InitCommon

\* deploy and issue, local and remote; issue never reads the config file, so it is
\* started from one of the config files only
NextDeploy ==
  \/ \E d \in Domains, o \in DeployOptions : StartDeploy(d, o)
  \/ Deploy
  \/ DeployConnect
  \/ DeployLocal
  \/ DeployRemote
  \/ DeployLocalSeparate
  \/ DeployRemoteSeparate
  \/ TestConfig
  \/ Reload
  \/ TestNginx
  \/ ReloadNginx
  \/ DeployFinally
  \/ (~shape.present /\ \E d \in Domains : StartIssue(d))
  \/ IssueNext

SpecDeploy == InitDeploy /\ [][NextDeploy]_vars

(***************************************************************************)
(* Config.load and the web root of the file proof                          *)
(***************************************************************************)
\* a || b
Or(a, b) == IF a # Unset THEN a ELSE b

\* { ...a, ...b }: a key that b has overrides the key of a
Spread(a, b) == [k \in DOMAIN a |-> IF b[k] # Unset THEN b[k] ELSE a[k]]

DEFAULTS == [email |-> Unset, staging |-> "false", webRoot |-> "/var/www/html"]

\* envConfig of Config.load: staging is a boolean whether or not the variable is set,
\* the other keys are deleted when their variable is not set
envConfig(env) ==
  [email   |-> env.email,
   staging |-> IF env.staging = "true" THEN "true" ELSE "false",
   webRoot |-> env.webRoot]

\* the options of the issue command after loadConfig filtered the undefined ones:
\* --staging has the default false, and --webroot is stored under the key webroot,
\* which Config does not read
cleanOptions(cli) ==
  [email   |-> cli.email,
   staging |-> IF cli.staging = "true" THEN "true" ELSE "false",
   webRoot |-> Unset]

\* new Config(options)
Config(options) ==
  [email   |-> options.email,
   staging |-> Or(options.staging, DEFAULTS.staging),
   webRoot |-> Or(options.webRoot, DEFAULTS.webRoot)]

\* Config.load(options): defaults, then the file, then the environment, then the options
load(options, env, file) ==
  Config(Spread(Spread(Spread(DEFAULTS, file), envConfig(env)), options))

\* issueLocal: finalWebRoot and the web root createChallengeHandler gives to Http01Handler
issueLocalWebRoot(options, domainConfig, config) ==
  LET finalWebRoot == Or(options.webRoot, Or(domainConfig.webRoot, Or(config.webRoot, "/var/www/html")))
  IN Or(finalWebRoot, config.webRoot)

\* issueRemote: remoteWebRoot, the web root of Http01RemoteHandler
issueRemoteWebRoot(options, domainConfig, config) ==
  Or(domainConfig.remoteWebRoot, Or(domainConfig.webRoot, Or(config.webRoot, "/var/www/html")))

\* what the command line, the environment, config.yaml and domains.yaml can hold
CliSources == [email : {Unset, "cli@x"},  staging : {Unset, "true"}, webroot : {Unset, "/cli"}]

EnvSources == [email : {Unset, "env@x"},  staging : {Unset, "true", "false"}, webRoot : {Unset, "/env"}]

FileSources == [email : {Unset, "file@x"}, staging : {Unset, "true", "false"}, webRoot : {Unset, "/file"}]

DomainRecords ==
  { r \in [webRoot : {Unset, "/record"}, ssh : BOOLEAN, remoteWebRoot : {Unset, "/remote"}] :
      r.remoteWebRoot # Unset => r.ssh }

\* one invocation of the issue command in one environment
InitConfig ==
  /\ \E c \in CliSources, e \in EnvSources, f \in FileSources, r \in DomainRecords :
       cfg = [NoCfg EXCEPT !.stage = "start", !.cli = c, !.env = e, !.file = f, !.record = r]
  /\ store = [d \in Domains |-> [dir |-> FALSE, hasCert |-> FALSE, days |-> 0, files |-> NoFiles]]
  /\ registry = [d \in Domains |-> NoRecord]
  /\ email = FALSE
  /\ conf = [d \in Domains |-> Absent]
  /\ backups = [d \in Domains |-> <<>>]
  /\ httpsConf = [d \in Domains |-> Absent]
  /\ shape = AbsentShape
  /\ remoteCerts = [d \in Domains |-> NoRemoteFiles]
  /\ runs = NoRuns
  /\ accounts = {}
  /\ InitCommon

\* loadConfig of the command, then new AutoCert(config), which loads again with the
\* loaded Config as its options
LoadConfig ==
  /\ cfg.stage = "start"
  /\ LET config == load(cleanOptions(cfg.cli), cfg.env, cfg.file)
     IN cfg' = [cfg EXCEPT !.stage = "loaded", !.config = load(config, cfg.env, cfg.file)]
  /\ UNCHANGED << store, registry, email, client, channel, conf, backups, httpsConf, shape, existing,
                  op, cur, pc, remote, authz, bundle, pending, batch, result, log, proofs, remoteCerts,
                  runs, accounts >>

\* autoCert.issue(domain, { webRoot: options.webroot, ... }): the web root of the handler
ResolveWebRoot ==
  /\ cfg.stage = "loaded"
  /\ LET options == [webRoot |-> cfg.cli.webroot]
     IN cfg' = [cfg EXCEPT !.stage = "resolved",
                           !.proofRoot = IF cfg.record.ssh
                                         THEN issueRemoteWebRoot(options, cfg.record, cfg.config)
                                         ELSE issueLocalWebRoot(options, cfg.record, cfg.config)]
  /\ UNCHANGED << store, registry, email, client, channel, conf, backups, httpsConf, shape, existing,
                  op, cur, pc, remote, authz, bundle, pending, batch, result, log, proofs, remoteCerts,
                  runs, accounts >>

NextConfig ==
  \/ LoadConfig
  \/ ResolveWebRoot

SpecConfig == InitConfig /\ [][NextConfig]_vars

(***************************************************************************)
(* Two invocations of the tool at the same time: the account key files and *)
(* the registry file are shared, each invocation has its own memory        *)
(***************************************************************************)
\* contact addresses, character by character
Emails ==
  { <<"a", ".", "b", "@", "c">>, <<"a", "_", "b", "@", "c">>, <<"a", "b", "@", "c">> }

\* email.replace(/[@.]/g, '_')
safeEmail(e) == [i \in 1..Len(e) |-> IF e[i] \in {"@", "."} THEN "_" ELSE e[i]]

\* Config.getAccountKeyPath: <accountsDir>/<safeEmail>_<env>.pem
getAccountKeyPath(e, staging) ==
  safeEmail(e) \o << "_", IF staging THEN "staging" ELSE "prod", ".pem" >>

\* the registry files the invocations may find
RegistryFiles ==
  [Domains -> { NoRecord,
                [present |-> TRUE, issuedAt |-> 1, ssh |-> FALSE],
                [present |-> TRUE, issuedAt |-> 1, ssh |-> TRUE] }]

\* an issue of a.com next to an issue of b.com or to domain:add of b.com
InitRuns ==
  /\ \E e1 \in Emails, e2 \in Emails, s1 \in BOOLEAN, s2 \in BOOLEAN, k \in {"issue", "domain-add"} :
       runs = [r \in Runs |->
                IF r = 1
                THEN [NoRun EXCEPT !.kind = "issue", !.domain = "a.com", !.email = e1, !.staging = s1,
                                   !.pc = "getClient"]
                ELSE IF k = "issue"
                     THEN [NoRun EXCEPT !.kind = "issue", !.domain = "b.com", !.email = e2,
                                        !.staging = s2, !.pc = "getClient"]
                     ELSE [NoRun EXCEPT !.kind = "domain-add", !.domain = "b.com", !.pc = "load"]]
  /\ accounts = {}
  /\ registry \in RegistryFiles
  /\ store = [d \in Domains |-> [dir |-> FALSE, hasCert |-> FALSE, days |-> 0, files |-> NoFiles]]
  /\ email = TRUE
  /\ conf = [d \in Domains |-> Absent]
  /\ backups = [d \in Domains |-> <<>>]
  /\ httpsConf = [d \in Domains |-> Absent]
  /\ shape = AbsentShape
  /\ remoteCerts = [d \in Domains |-> NoRemoteFiles]
  /\ cfg = NoCfg
  /\ InitCommon

\* getClient: the account key is read from the key file of the contact address, or
\* created and written there when the file cannot be read
RunGetClient(r) ==
  /\ runs[r].pc = "getClient"
  /\ LET accountKeyPath == getAccountKeyPath(runs[r].email, runs[r].staging)
         found == { f \in accounts : f.path = accountKeyPath }
         own == [email |-> runs[r].email, staging |-> runs[r].staging]
     IN IF found # {}
        THEN /\ runs' = [runs EXCEPT ![r].path = accountKeyPath,
                                     ![r].key = (CHOOSE f \in found : TRUE).key,
                                     ![r].pc = "load"]
             /\ accounts' = accounts
        ELSE /\ runs' = [runs EXCEPT ![r].path = accountKeyPath, ![r].key = own, ![r].pc = "load"]
             /\ accounts' = accounts \cup { [path |-> accountKeyPath, key |-> own] }
  /\ UNCHANGED << store, registry, email, client, channel, conf, backups, httpsConf, shape, existing,
                  op, cur, pc, remote, authz, bundle, pending, batch, result, log, proofs, remoteCerts,
                  cfg >>

\* saveDomainConfig after the issuance, and loadDomains of domain:add: the registry file
\* is read into the memory of the invocation
RunLoad(r) ==
  /\ runs[r].pc = "load"
  /\ \E readable \in RegistryReads :
       runs' = [runs EXCEPT ![r].loaded = readDomains(registry, readable), ![r].pc = "save"]
  /\ UNCHANGED << store, registry, email, client, channel, conf, backups, httpsConf, shape, existing,
                  op, cur, pc, remote, authz, bundle, pending, batch, result, log, proofs, remoteCerts,
                  cfg, accounts >>

\* domain:add: domains[domain] = { issuedAt: '', email: '' }
addRecord(domains, d) ==
  [domains EXCEPT ![d] = [present |-> TRUE, issuedAt |-> 0, ssh |-> FALSE]]

\* the record of the invocation is put into what it has read, and the whole file is
\* written; domain:add returns without writing when the record is there
RunSave(r) ==
  /\ runs[r].pc = "save"
  /\ registry' = IF runs[r].kind = "issue" THEN putRecord(runs[r].loaded, runs[r].domain)
                 ELSE IF runs[r].loaded[runs[r].domain].present THEN registry
                 ELSE addRecord(runs[r].loaded, runs[r].domain)
  /\ runs' = [runs EXCEPT ![r].pc = "done"]
  /\ UNCHANGED << store, email, client, channel, conf, backups, httpsConf, shape, existing,
                  op, cur, pc, remote, authz, bundle, pending, batch, result, log, proofs, remoteCerts,
                  cfg, accounts >>

NextRuns ==
  \/ \E r \in Runs : RunGetClient(r)
  \/ \E r \in Runs : RunLoad(r)
  \/ \E r \in Runs : RunSave(r)

SpecRuns == InitRuns /\ [][NextRuns]_vars

(***************************************************************************)
(* Properties                                                              *)
(***************************************************************************)
InLog(e) == \E i \in 1..Len(log) : log[i] = e

Idx(e) == { i \in 1..Len(log) : log[i] = e }

Count(seq, d) == Cardinality({ i \in 1..Len(seq) : seq[i] = d })

\* C1: for a domain with a stored certificate expiring in N days, a passed threshold T
\* (30 when none is passed) and any force: renew invokes issue iff N <= T or force;
\* otherwise it calls nothing, writes nothing and returns null.
C1_RenewIffDue ==
  (op.name = "renew" /\ pc \notin {"idle", "renew"} /\ Len(log) <= 2 /\ store[cur].hasCert)
  => LET N == store[cur].days
         T == IF op.options.days.set THEN op.options.days.val ELSE 30
         due == N <= T \/ op.options.force
     IN /\ InLog(<<"issue", cur>>) <=> due
        /\ ~due => /\ pc = "done"
                   /\ result = [kind |-> "return", value |-> "null"]
                   /\ log = << <<"renew", cur>> >>

\* how often a domain was put into one of the three result lists of renewAll
Buckets(d) ==
  Count(batch.renewed, d) + Count(batch.skipped, d)
  + Cardinality({ i \in 1..Len(batch.failed) : batch.failed[i].domain = d })

\* C2: renewAll never raises, one domain's failure does not stop the following domains,
\* every processed domain is in exactly one of renewed / skipped / failed exactly once,
\* and a failed entry names its domain and carries the reason.
C2_RenewAllCompletes ==
  op.name = "renewAll" =>
    /\ result.kind # "throw"
    /\ \A i \in 1..Len(batch.failed) :
         batch.failed[i].domain \in Domains /\ batch.failed[i].error # ""
    /\ \A d \in Domains :
         /\ Buckets(d) <= 1
         /\ ( /\ store[d].dir
              /\ Count(batch.queue, d) = 0
              /\ ~(d = cur /\ pc \notin {"renewAll", "done"}) ) => Buckets(d) = 1
    /\ pc = "done" =>
         /\ result = [kind |-> "return", value |-> "results"]
         /\ \A d \in Domains : Buckets(d) = IF store[d].dir THEN 1 ELSE 0

\* the first domain failed with a transport error, the second one was still renewed
C2_Witness ==
  /\ op.name = "renewAll"
  /\ pc = "done"
  /\ batch.failed = << [domain |-> "a.com", error |-> "ssh connect failed"] >>
  /\ batch.renewed = << "b.com" >>

\* C3: renewAll invokes renew exactly once for every domain that has a record in
\* domains.yaml and for no other domain.
C3_RenewsRegistered ==
  (op.name = "renewAll" /\ pc = "done")
  => \A d \in Domains :
       Cardinality(Idx(<<"renew", d>>)) = IF registry[d].present THEN 1 ELSE 0

\* C4: when an issue or a deploy has terminated, on whatever path, the channel it
\* opened is not connected any more.
C4_ChannelReleased == pc = "done" => channel # "connected"

\* a remote issue failed at validation after the channel was opened, and the channel is closed
C4_Witness ==
  /\ pc = "done"
  /\ op.name = "issue"
  /\ result = [kind |-> "throw", value |-> "waitForValidStatus"]
  /\ InLog(<<"ssh", "connect">>)
  /\ channel = "closed"

\* the config file as the operator left it
InitialConf == IF shape.present THEN RenderConfig(shape) ELSE Absent

\* the three states of the target config path
ClassOf(content) ==
  IF content = Absent THEN "absent"
  ELSE IF Includes(content, "listen 443") \/ Includes(content, "ssl_certificate") THEN "with-tls"
  ELSE IF Includes(content, "listen 80") THEN "without-tls"
  ELSE "other"

\* the deploy has inspected the existing config
Inspected == pc \in {"testConfig", "testNginx", "reload", "reloadNginx", "deployDisconnect", "done"}

\* the deploy failed before it could inspect the config
TransportFailed ==
  \/ pending.value \in {"ssh connect failed", "remote mkdir failed"}
  \/ result.value \in {"ssh connect failed", "remote mkdir failed"}

\* C5: a deploy onto a config that is present-with-TLS leaves the file byte-identical,
\* creates no backup, runs neither self-test nor reload and reports skipped.
C5_TlsConfigUntouched ==
  (op.name = "deploy" /\ Inspected /\ ~TransportFailed /\ ClassOf(InitialConf) = "with-tls")
  => /\ conf[cur] = InitialConf
     /\ ~InLog(<<"fs", "backup">>)
     /\ ~InLog(<<"nginx -t", "pass">>) /\ ~InLog(<<"nginx -t", "fail">>)
     /\ ~InLog(<<"exec", "nginx -s reload">>)
     /\ pc = "done" => result = [kind |-> "return", value |-> "skipped"]

\* C6: if deploy transformed a present-without-TLS config, took a backup, and the
\* self-test failed, the file is byte-identical to the original when deploy terminates,
\* in local and in remote mode.
C6_RollbackRestores ==
  ( /\ op.name = "deploy" /\ op.options.variant = "transform" /\ pc = "done"
    /\ existing.exists /\ ~existing.hasHttps
    /\ InLog(<<"fs", "backup">>) /\ InLog(<<"fs", "write">>) /\ InLog(<<"nginx -t", "fail">>) )
  => /\ result.kind = "throw"
     /\ conf[cur] = InitialConf

\* C7: deploy takes the action of the state of the config path: absent -> write the
\* generated config and report created; present-without-TLS -> transform and report
\* transformed; present-with-TLS -> skip.  Local and remote.
C7_ClassifiedAction ==
  (op.name = "deploy" /\ op.options.variant = "transform" /\ Inspected /\ ~TransportFailed)
  => CASE ClassOf(InitialConf) = "absent" ->
            /\ InLog(<<"fs", "write">>)
            /\ (pc = "done" /\ result.kind = "return") => result.value = "created"
       [] ClassOf(InitialConf) = "without-tls" ->
            transformHttpToHttps(InitialConf).ok =>
              /\ InLog(<<"fs", "write">>)
              /\ (pc = "done" /\ result.kind = "return") => result.value = "transformed"
       [] ClassOf(InitialConf) = "with-tls" ->
            /\ ~InLog(<<"fs", "write">>)
            /\ pc = "done" => result = [kind |-> "return", value |-> "skipped"]
       [] OTHER -> TRUE

\* C8: in a deploy that writes a config the self-test runs after the write and before
\* any reload; reload runs iff the self-test passed and reload is not disabled.
C8_TestThenReload ==
  op.name = "deploy" =>
    /\ \A i \in Idx(<<"exec", "nginx -s reload">>) :
         /\ op.options.reload
         /\ Idx(<<"nginx -t", "fail">>) = {}
         /\ \E j \in Idx(<<"nginx -t", "pass">>) : j < i /\ \E k \in Idx(<<"fs", "write">>) : k < j
    /\ \A j \in Idx(<<"nginx -t", "pass">>) \cup Idx(<<"nginx -t", "fail">>) :
         \E k \in Idx(<<"fs", "write">>) : k < j
    /\ (pc = "done" /\ InLog(<<"fs", "write">>)) =>
         /\ InLog(<<"nginx -t", "pass">>) \/ InLog(<<"nginx -t", "fail">>)
         /\ InLog(<<"exec", "nginx -s reload">>)
              <=> (InLog(<<"nginx -t", "pass">>) /\ op.options.reload)

\* a remote deploy transformed the config, tested it, reloaded and returned
C8_Witness ==
  /\ op.name = "deploy"
  /\ pc = "done"
  /\ remote
  /\ result = [kind |-> "return", value |-> "transformed"]
  /\ InLog(<<"nginx -t", "pass">>)
  /\ InLog(<<"exec", "nginx -s reload">>)

\* the transform has just written its result over the existing config
Transformed ==
  /\ op.name = "deploy" /\ op.options.variant = "transform"
  /\ pc \in {"testConfig", "testNginx"}
  /\ existing.exists

RECURSIVE IndentedTexts(_)
IndentedTexts(kinds) ==
  IF kinds = <<>> THEN <<>>
  ELSE << <<"SP">> \o LocationText(Head(kinds)) >> \o IndentedTexts(Tail(kinds))

\* the secure block that holds exactly the given locations, each one whole
SecureBlockOf(kinds) ==
  << "server", "SP", "{", "NL",
     "SP", "listen 443 ssl http2;", "NL",
     "SP", "listen [::]:443 ssl http2;", "NL",
     "SP", "server_name;" >>
  \o generateSslConfig
  \o Join(IndentedTexts(kinds), <<"NL">>)
  \o << "NL", "}" >>

\* C9: for a plaintext block with N locations, none redirect-only or proof-serving, the
\* synthesized secure block holds exactly these N locations, each with its path and all
\* its directives (also when a location body contains nested braces), and no proof location.
C9_SecureBlockKeepsLocations ==
  ( /\ Transformed
    /\ shape.main.listen = "80" /\ ~shape.main.indented
    /\ \A i \in 1..Len(shape.main.locs) : shape.main.locs[i] \in {"plain", "nested"} )
  => Occurs(SecureBlockOf(shape.main.locs), conf[cur])

\* C10: every piece of the original file is still present unchanged in the written
\* result: content outside server blocks, and each server block's directives and locations.
C10_OriginalPreserved ==
  Transformed =>
    /\ shape.upstream => Occurs(SubSeq(UpstreamBlock, 1, 10), conf[cur])
    /\ Occurs(<< ListenToken(shape.main.listen), "NL", "SP", "server_name;" >>, conf[cur])
    /\ \A i \in 1..Len(shape.main.locs) : Occurs(LocationText(shape.main.locs[i]), conf[cur])

(***************************************************************************)
(* Properties of one issuance attempt                                      *)
(***************************************************************************)
\* where the running or last issuance attempt starts in the log, 0 if there was none
AttemptStart ==
  LET starts == { i \in 1..Len(log) : log[i][1] = "issue" }
  IN IF starts = {} THEN 0 ELSE CHOOSE i \in starts : \A j \in starts : j <= i

\* the attempt ends where the next renew of a batch run begins
AttemptRange ==
  LET a == AttemptStart
      stops == { j \in (a + 1)..Len(log) : log[j][1] \in {"renew", "call"} }
  IN IF a = 0 THEN {}
     ELSE IF stops = {} THEN a..Len(log)
     ELSE a..(Min(stops) - 1)

AttemptDomain == log[AttemptStart][2]

\* positions of a call in the attempt
AIdx(e) == { i \in AttemptRange : log[i] = e }

InAttempt(e) == AIdx(e) # {}

\* positions of the errors thrown in the attempt
ThrowIdx == { i \in AttemptRange : log[i][1] = "throw" }

\* the attempt has persisted the bundle it downloaded
Saved == InAttempt(<<"fs", "saveCertificate">>) /\ ~InAttempt(<<"throw", "saveCertificate">>)

\* the certificates a file holds, in order
CertsOf(text) == SelectSeq(text, LAMBDA tok : tok \in CertTokens)

C12_NoPartialArtifact ==
  InAttempt(<<"throw", "saveCertificate">>) =>
    /\ \A n \in ArtifactNames : store[AttemptDomain].files[n].gen # 2
    /\ registry[AttemptDomain].issuedAt # 2

\* C13: in every state, a domain whose record has an issuance timestamp has all four
\* artifact files, and they belong to one and the same issuance.
C13_ArtifactsConsistent ==
  \A d \in Domains :
    registry[d].issuedAt # 0 =>
      \A n \in ArtifactNames :
        /\ store[d].files[n].gen # 0
        /\ store[d].files[n].gen = store[d].files.cert.gen

\* C14: in an attempt, finalizeOrder comes only after every authorization was validated,
\* getCertificate only after finalizeOrder succeeded, the artifacts are persisted only
\* after getCertificate succeeded, and nothing but the disconnect follows an error.
C14_StepOrder ==
  LET r == AttemptRange
      throws == { i \in r : log[i][1] = "throw" }
      waits == { i \in r : log[i] = <<"acme", "waitForValidStatus">> }
      finals == { i \in r : log[i] = <<"acme", "finalizeOrder">> }
      gets == { i \in r : log[i] = <<"acme", "getCertificate">> }
      saves == { i \in r : log[i] = <<"fs", "saveCertificate">> }
  IN /\ \A i \in throws : \A j \in r : j > i => log[j] = <<"ssh", "disconnect">>
     /\ \A i \in finals :
          /\ authz.n >= 1
          /\ Cardinality({ j \in waits : j < i }) = authz.n
          /\ \A j \in throws : j > i
     /\ \A i \in gets :
          /\ \E j \in finals : j < i
          /\ \A j \in throws : j > i
     /\ \A i \in saves :
          /\ \E j \in gets : j < i
          /\ \A j \in throws : j > i

\* an issue with two authorizations went through all steps and returned
C14_Witness ==
  /\ pc = "done"
  /\ op.name = "issue"
  /\ result = [kind |-> "return", value |-> "paths"]
  /\ authz.n = 2
  /\ Cardinality(AIdx(<<"acme", "waitForValidStatus">>)) = 2
  /\ Saved

ChallengeSteps == {"prepare", "completeChallenge", "waitForValidStatus"}

\* the error the attempt ended with, as its caller got it
Rethrown(x) ==
  CASE pc = "disconnect" -> pending = [kind |-> "throw", value |-> x]
    [] op.name = "renewAll" ->
         \E k \in 1..Len(batch.failed) : batch.failed[k] = [domain |-> AttemptDomain, error |-> x]
    [] OTHER -> pc = "done" /\ result = [kind |-> "throw", value |-> x]

\* C15: when prepare, completeChallenge or validation fails for an authorization, no
\* cleanup is invoked in that attempt, the proofs of the authorizations validated
\* before stay in place, and the original error is re-raised.
C15_NoCleanupOnFailure ==
  \A x \in ChallengeSteps :
    InAttempt(<<"throw", x>>) =>
      /\ \A k \in 1..MaxAuthz : ~InAttempt(<<"cleanup", k>>)
      /\ \A i \in 1..(authz.i - 1) :
           InAttempt(<<"proof written", i>>) =>
             [domain |-> AttemptDomain, i |-> i, challenge |-> op.options.challengeType] \in proofs
      /\ Rethrown(x)

\* the validation of the second authorization failed: the proof of the first is still there
C15_Witness ==
  /\ pc = "done"
  /\ op.name = "issue"
  /\ result = [kind |-> "throw", value |-> "waitForValidStatus"]
  /\ authz.i = 2
  /\ [domain |-> cur, i |-> 1, challenge |-> "http-01"] \in proofs
  /\ [domain |-> cur, i |-> 2, challenge |-> "http-01"] \in proofs

\* C16: no terminated issuance attempt leaves a proof resource behind, whether it
\* succeeded or was abandoned.
C16_ProofsCleaned == pc = "done" => proofs = {}

\* C17: the strategy whose prepare is run matches the requested challenge type, in
\* local and in remote mode, and no key authorization of a dns-01 challenge is
\* written as a file proof.
C17_StrategyMatchesType ==
  /\ (\E i \in 1..MaxAuthz : InAttempt(<<"prepare", i>>)) =>
       /\ op.options.challengeType = "http-01" => challengeHandler \in FileHandlers
       /\ op.options.challengeType = "dns-01" => challengeHandler = "Dns01Handler"
  /\ \A pr \in proofs : pr.challenge = "http-01"

\* C18: when issue returns successfully for a domain with a remote target, all four
\* artifacts are in the remote certificate directory with key 600 and the others 644.
C18_RemoteArtifactsInstalled ==
  ( /\ pc = "done" /\ op.name \in {"issue", "renew"}
    /\ result = [kind |-> "return", value |-> "paths"]
    /\ registry[cur].ssh )
  => \A n \in ArtifactNames :
       remoteCerts[cur][n] = [gen |-> 2, mode |-> IF n = "key" THEN "600" ELSE "644"]

\* C19: after every successful issue, also one that overwrites existing files, the
\* private key has mode 0600 and leaf, chain and fullchain have mode 0644.
C19_LocalModes ==
  Saved =>
    \A n \in ArtifactNames :
      store[AttemptDomain].files[n].mode = IF n = "key" THEN "0600" ELSE "0644"

(***************************************************************************)
(* The certificate files a written config refers to                        *)
(***************************************************************************)
\* Config.getCertPaths: the file names under <certsDir>/<domain>/
getCertPaths ==
  [key |-> "cert.key", cert |-> "cert.pem", chain |-> "chain.pem", fullchain |-> "fullchain.pem"]

\* the file a directive of a config refers to, "" for a directive that names no file
ReferencedFile(tok) ==
  CASE tok = "ssl_certificate fullchain.pem;"     -> "fullchain.pem"
    [] tok = "ssl_certificate_key privkey.pem;"   -> "privkey.pem"
    [] tok = "ssl_certificate cert.pem;"          -> "cert.pem"
    [] tok = "ssl_certificate_key cert.key;"      -> "cert.key"
    [] tok = "ssl_trusted_certificate chain.pem;" -> "chain.pem"
    [] OTHER -> ""

CertReferences(text) == { ReferencedFile(text[i]) : i \in 1..Len(text) } \ {""}

\* C20: every certificate and key file a config written by deploy refers to is a file
\* issue stores for the domain: cert.pem, cert.key, chain.pem or fullchain.pem.
C20_ReferencesStoredArtifacts ==
  (op.name = "deploy" /\ pc \in {"testConfig", "testNginx"})
  => CertReferences(conf[cur]) \cup CertReferences(httpsConf[cur])
       \subseteq { getCertPaths[n] : n \in ArtifactNames }

(***************************************************************************)
(* The remote existence test and the proof resources                       *)
(***************************************************************************)
\* the remote deploy has asked whether the config file exists
ExistsAsked ==
  /\ op.name = "deploy" /\ remote
  /\ pc \in {"testNginx", "reloadNginx", "deployDisconnect", "done"}
  /\ ~TransportFailed

\* C21: the remote exists(path) answers true when the path exists on the remote host
\* and false when it does not.
C21_ExistsReportsPresence ==
  ExistsAsked => (existing.exists <=> InitialConf # Absent)

\* C22: the remote file-proof prepare reports success, so that the challenge is signalled
\* ready next, only if the proof file is present under the remote web root after the
\* write; when the write did not land, prepare fails.
C22_RemoteProofConfirmed ==
  (pc = "completeChallenge" /\ challengeHandler = "Http01RemoteHandler") => thisProof \in proofs

\* a DNS-provider plugin is registered for the configured provider
PluginRegistered(provider) == provider # "none" /\ getProviderClient(provider).ok

\* the prepare of the handler has been called in the attempt
PrepareCalled == \E i \in 1..MaxAuthz : InAttempt(<<"prepare", i>>)

\* C23: DNS-proof prepare fails whenever no plugin is registered for the configured
\* provider, with no provider configured and with a provider name that has no plugin,
\* and the challenge is not signalled ready.
C23_UnsupportedProviderFails ==
  (challengeHandler = "Dns01Handler" /\ PrepareCalled /\ ~PluginRegistered(op.options.dnsProvider))
  => /\ InAttempt(<<"throw", "prepare">>)
     /\ ~InAttempt(<<"acme", "completeChallenge">>)

\* C24: for a dns-01 challenge, completeChallenge is invoked only after the TXT record
\* was published through the provider and a wait of 60 seconds followed the publication.
C24_DnsPublishedBeforeReady ==
  op.options.challengeType = "dns-01" =>
    \A c \in AIdx(<<"acme", "completeChallenge">>) :
      \E a \in AIdx(<<"dns", "addTxtRecord">>) :
        \E w \in AIdx(<<"sleep", "60000">>) : a < w /\ w < c

\* a cleanup call of the attempt failed
CleanupFailed == \E k \in 1..MaxAuthz : InAttempt(<<"cleanup failed", k>>)

\* C25: a failing cleanup call never makes issue fail: no error is raised by the cleanup
\* loop and the attempt goes on to finalizeOrder and the download.
C25_CleanupNeverFatal ==
  CleanupFailed =>
    /\ ~InAttempt(<<"throw", "cleanup">>)
    /\ pc = "finalizeOrder" \/ InAttempt(<<"acme", "finalizeOrder">>)

\* both cleanup calls of a remote issue failed, and the issue still returned its paths
C25_Witness ==
  /\ pc = "done"
  /\ op.name = "issue"
  /\ remote
  /\ result = [kind |-> "return", value |-> "paths"]
  /\ InAttempt(<<"cleanup failed", 2>>)
  /\ InAttempt(<<"acme", "getCertificate">>)

(***************************************************************************)
(* Reload failure and backups of a deploy                                  *)
(***************************************************************************)
\* what the deploy wrote to the config path of the domain
WrittenConf ==
  IF existing.exists THEN transformHttpToHttps(existing.content).text ELSE generateConfig

\* the deploy has terminated and handed its outcome to the caller
DeployEnded == op.name = "deploy" /\ pc = "done"

\* C26: when the self-test passed and the reload command then failed, deploy raises the
\* reload failure, restores nothing from a backup, and the config it wrote stays on disk.
C26_ReloadFailureKeepsConfig ==
  (DeployEnded /\ InLog(<<"nginx -t", "pass">>) /\ InLog(<<"throw", "reload">>))
  => /\ result.kind = "throw"
     /\ result.value \in {"nginx reload failed", "remote nginx reload failed"}
     /\ ~InLog(<<"fs", "restore">>)
     /\ op.options.variant = "transform" => conf[cur] = WrittenConf
     /\ op.options.variant = "separate" =>
          \E skip \in BOOLEAN : libGenerateConfig(skip, remote) \in {conf[cur], httpsConf[cur]}

\* a remote deploy transformed a plaintext config, the self-test passed, the reload failed
C26_Witness ==
  /\ DeployEnded
  /\ remote
  /\ op.options.variant = "transform"
  /\ existing.exists
  /\ InLog(<<"fs", "backup">>)
  /\ InLog(<<"nginx -t", "pass">>)
  /\ InLog(<<"throw", "reload">>)
  /\ result = [kind |-> "throw", value |-> "remote nginx reload failed"]
  /\ conf[cur] # InitialConf

\* C27: when deploy transforms a present-without-TLS config, a backup with the original
\* content is taken before the write iff backup is not disabled, in local and in remote
\* mode.
C27_BackupIffEnabled ==
  (op.name = "deploy" /\ op.options.variant = "transform" /\ InLog(<<"fs", "write">>) /\ existing.exists)
  => IF op.options.backup
     THEN /\ \E b \in Idx(<<"fs", "backup">>) : \A w \in Idx(<<"fs", "write">>) : b < w
          /\ backups[cur] # <<>>
          /\ backups[cur][Len(backups[cur])] = InitialConf
     ELSE /\ ~InLog(<<"fs", "backup">>)
          /\ \A i \in 1..Len(backups[cur]) : backups[cur][i] # InitialConf

(***************************************************************************)
(* Issue without a contact identity                                        *)
(***************************************************************************)
\* C30: when no email is configured, issue fails at once with the configuration error
\* and before any side effect: no account or order, no channel, no proof, no artifact
\* and no registry entry is created or changed.
C30_NoEmailNoSideEffect ==
  (~email /\ AttemptStart # 0 /\ pc # "issue") =>
    /\ AttemptRange = {AttemptStart}
    /\ Rethrown("email not configured")
    /\ ~client
    /\ channel = "none"
    /\ proofs = {}
    /\ \A d \in Domains :
         /\ registry[d].issuedAt # 2
         /\ \A n \in ArtifactNames : store[d].files[n].gen # 2 /\ remoteCerts[d][n].gen # 2

\* the issue of a domain with a remote target failed for the missing email, no call was made
C30_Witness ==
  /\ ~email
  /\ op.name = "issue"
  /\ pc = "done"
  /\ registry[cur].ssh
  /\ result = [kind |-> "throw", value |-> "email not configured"]
  /\ log = << <<"issue", cur>> >>

(***************************************************************************)
(* Priority of the sources of a setting                                    *)
(***************************************************************************)
RECURSIVE FirstSet(_)
\* the value of the first source in the list that provides one
FirstSet(sources) ==
  IF sources = <<>> THEN Unset
  ELSE IF Head(sources) # Unset THEN Head(sources)
  ELSE FirstSet(Tail(sources))

\* C28: every setting, the staging flag included, takes the value of the highest source
\* that sets it, in the order command line > environment > config file > default; so a
\* value only the config file sets is the effective one.
C28_SourcePriority ==
  cfg.stage \in {"loaded", "resolved"} =>
    /\ cfg.config.email = FirstSet(<< cfg.cli.email, cfg.env.email, cfg.file.email >>)
    /\ cfg.config.staging
         = FirstSet(<< cfg.cli.staging, cfg.env.staging, cfg.file.staging, DEFAULTS.staging >>)
    /\ cfg.config.webRoot = FirstSet(<< cfg.env.webRoot, cfg.file.webRoot, DEFAULTS.webRoot >>)

\* the ordinary priority of the web root: --webroot, the record, the global config
OrdinaryWebRoot ==
  FirstSet(<< cfg.cli.webroot, cfg.record.webRoot, cfg.config.webRoot, DEFAULTS.webRoot >>)

\* C29: the file proof is written under the first defined of --webroot, the record's
\* webRoot, the global webRoot and /var/www/html; for a domain with an ssh block
\* ssh.remoteWebRoot is used when set, and the same ordinary priority when it is not.
C29_WebRootPriority ==
  cfg.stage = "resolved" =>
    cfg.proofRoot = IF cfg.record.ssh /\ cfg.record.remoteWebRoot # Unset
                    THEN cfg.record.remoteWebRoot
                    ELSE OrdinaryWebRoot

(***************************************************************************)
(* One domain at a time                                                    *)
(***************************************************************************)
\* the domains renewAll has taken from its list before the current one
TakenBefore ==
  { d \in Domains : store[d].dir /\ d # cur /\ Count(batch.queue, d) = 0 }

\* C31: renewAll handles one domain at a time: when the renew of a domain starts, the
\* renew of every domain taken before has terminated and is in a result list, no
\* channel is connected and no outcome of an issue is pending.
C31_OneDomainAtATime ==
  (op.name = "renewAll" /\ pc = "renew") =>
    /\ \A d \in TakenBefore : Buckets(d) = 1
    /\ channel # "connected"
    /\ pending = NoPending

\* the renew of b.com starts after a.com was renewed over a channel that is closed again
C31_Witness ==
  /\ op.name = "renewAll"
  /\ pc = "renew"
  /\ cur = "b.com"
  /\ batch.renewed = << "a.com" >>
  /\ channel = "closed"
  /\ InLog(<<"ssh", "installCertificate">>)

(***************************************************************************)
(* The registry record of a domain across issue                            *)
(***************************************************************************)
\* a single issue or renew has ended by raising out of an issuance attempt
IssueRaised ==
  /\ op.name \in {"issue", "renew"}
  /\ pc = "done"
  /\ result.kind = "throw"
  /\ AttemptStart # 0

\* C32: whenever issue raises, in local or remote mode and at whatever step, the
\* registry record of the domain is the one from before the call: it does not carry the
\* timestamp of this issuance.
C32_RaisedIssueKeepsRecord ==
  IssueRaised => registry[cur].issuedAt # 2

\* C33: the step in which an issue of D saves the registry changes only D's record:
\* D's ssh block is preserved, the record of every other domain is unchanged and no
\* record is removed.
C33_SaveChangesOnlyOwnRecord ==
  [][ registry' # registry =>
        /\ registry'[cur].present
        /\ registry'[cur].ssh = registry[cur].ssh
        /\ \A d \in Domains \ {cur} : registry'[d] = registry[d] ]_vars

(***************************************************************************)
(* Validation polling                                                      *)
(***************************************************************************)
\* the numbers of polls the validations of the run took
PollCounts == { log[i][2] : i \in { j \in 1..Len(log) : log[j][1] = "polls" } }

\* the validation of an authorization of the attempt did not succeed
ValidationFailed == InAttempt(<<"throw", "waitForValidStatus">>)

C35_AuthorizationSteps ==
  LET r == AttemptRange
      throws == { i \in r : log[i][1] = "throw" }
      prepares == { i \in r : log[i][1] = "prepare" }
      completes == { i \in r : log[i] = <<"acme", "completeChallenge">> }
      waits == { i \in r : log[i] = <<"acme", "waitForValidStatus">> }
      Before(S, i) == Cardinality({ j \in S : j < i })
  IN /\ \A i \in prepares :
          /\ log[i][2] = Before(prepares, i) + 1
          /\ Before(completes, i) = log[i][2] - 1
          /\ Before(waits, i) = log[i][2] - 1
          /\ \A t \in throws : t > i
     /\ \A i \in completes :
          /\ Before(prepares, i) = Before(completes, i) + 1
          /\ Before(waits, i) = Before(completes, i)
          /\ \A t \in throws : t > i
     /\ \A i \in waits :
          /\ Before(completes, i) = Before(waits, i) + 1
          /\ Before(prepares, i) = Before(waits, i) + 1
          /\ \A t \in throws : t > i

\* the completeChallenge of the second authorization of a remote attempt was rejected
\* after the first authorization was validated
C35_Witness ==
  /\ remote
  /\ authz.n = 2
  /\ authz.i = 2
  /\ InAttempt(<<"prepare", 2>>)
  /\ InAttempt(<<"throw", "completeChallenge">>)
  /\ Cardinality(AIdx(<<"acme", "waitForValidStatus">>)) = 1

(***************************************************************************)
(* The challenge-proof location of a plaintext block                       *)
(***************************************************************************)
\* where the paths of challenge-proof locations are in a file
AcmePaths(c) == { i \in 1..Len(c) : c[i] = "/.well-known/acme-challenge/" }

\* the number of blocks open in front of position i
Depth(c, i) ==
  Cardinality({ j \in 1..(i - 1) : c[j] = "{" }) - Cardinality({ j \in 1..(i - 1) : c[j] = "}" })

\* C36: after the transform of a file whose plaintext blocks have at most one
\* challenge-proof location each, the written file has exactly one such location per
\* plaintext block, each one a direct child of its server block, and its braces are
\* balanced.
C36_OneProofLocationPerBlock ==
  ( /\ Transformed
    /\ shape.main.listen = "80" /\ ~shape.main.indented
    /\ Count(shape.main.locs, "acme") <= 1 )
  => LET c == conf[cur]
     IN /\ Cardinality(AcmePaths(c)) = 1 + (IF shape.extra = "http" THEN 1 ELSE 0)
        /\ \A i \in AcmePaths(c) : Depth(c, i) = 1
        /\ Depth(c, Len(c) + 1) = 0

(***************************************************************************)
(* Splitting a file into server blocks                                     *)
(***************************************************************************)
\* the transform has split an existing file into blocks
Parsed ==
  /\ op.name = "deploy" /\ op.options.variant = "transform"
  /\ shape.present
  /\ existing.exists /\ ~existing.hasHttps

\* the listeners of the server blocks of the file, in order
ListenersOf(s) ==
  << ListenToken(s.main.listen) >>
  \o (CASE s.extra = "none" -> <<>>
        [] s.extra = "https" -> << ListenToken("443") >>
        [] s.extra = "http" -> << ListenToken("80") >>)

\* C37: the transform splits the file into its top-level server blocks by balanced
\* braces: one block per server block of the file, in order, each with balanced braces
\* and with the listener of its server block, whatever the layout of the closing brace.
C37_BlocksByBalancedBraces ==
  Parsed =>
    LET blocks == parseServerBlocks(existing.content)
        listeners == ListenersOf(shape)
    IN /\ Len(blocks) = Len(listeners)
       /\ \A k \in 1..Len(blocks) :
            /\ Depth(blocks[k], Len(blocks[k]) + 1) = 0
            /\ Count(blocks[k], "server") = 1
            /\ Count(blocks[k], listeners[k]) = 1

\* the existing file has no block the transform can parse, or none it can convert
Unconvertible ==
  LET blocks == parseServerBlocks(InitialConf)
  IN blocks = <<>> \/ ~hasAddedHttps(blocks)

\* C38: when the transform of an existing file fails, deploy raises before it writes:
\* the config file is the original one, no write, no self-test and no reload took
\* place, and the deploy ends by raising.
C38_FailedTransformWritesNothing ==
  (Parsed /\ Unconvertible) =>
    /\ conf[cur] = InitialConf
    /\ ~InLog(<<"fs", "write">>)
    /\ ~InLog(<<"nginx -t", "pass">>) /\ ~InLog(<<"nginx -t", "fail">>)
    /\ ~InLog(<<"exec", "nginx -s reload">>)
    /\ pc \in {"deployDisconnect", "done"}
    /\ pc = "done" => result.kind = "throw"

\* a remote deploy over a file whose only server block listens on another port raised
C38_Witness ==
  /\ Parsed /\ Unconvertible
  /\ remote
  /\ pc = "done"
  /\ shape.main.listen = "9000" /\ ~shape.main.indented
  /\ result = [kind |-> "throw", value |-> "no convertible block"]
  /\ InLog(<<"fs", "backup">>)

(***************************************************************************)
(* Two invocations at the same time                                        *)
(***************************************************************************)
\* the registry holds the record that the invocation had to leave
Recorded(r) ==
  /\ registry[runs[r].domain].present
  /\ runs[r].kind = "issue" => registry[runs[r].domain].issuedAt = 2

\* C39: when two issue invocations for two different domains have both finished their
\* load-modify-save of the registry, the registry holds the updated record of each
\* of them, however their steps interleaved.
C39_NoLostUpdate ==
  (\A r \in Runs : runs[r].kind = "issue" /\ runs[r].pc = "done") => \A r \in Runs : Recorded(r)

\* C40: two invocations with different contact addresses, or with the same address in
\* the staging and the production environment, use different account key files.
C40_KeyPathInjective ==
  \A r1 \in Runs, r2 \in Runs :
    ( /\ runs[r1].kind = "issue" /\ runs[r2].kind = "issue"
      /\ runs[r1].pc \in {"load", "save", "done"} /\ runs[r2].pc \in {"load", "save", "done"}
      /\ << runs[r1].email, runs[r1].staging >> # << runs[r2].email, runs[r2].staging >> )
    => runs[r1].path # runs[r2].path
====
